---- MODULE Spec2Model ----
(***************************************************************************)
(* Verification model of the prediction-market arbitrage bot.             *)
(*                                                                         *)
(*   Part 1  DomeClient.fetch   (src/src/api/dome.ts)  retry / backoff /   *)
(*           timeout wrapper around one HTTP request.                      *)
(*   Part 2  markets store      (src/unnamed/part_003) fetchAllMarkets,    *)
(*           background persistence, cache, auto-refresh timer.            *)
(*   Part 3  CacheManager       (src/src/db/cache/manager.ts)              *)
(*   Part 4  pagination loops   (src/src/api/dome.ts)                      *)
(*   Part 5  market matcher     (src/src/arbitrage/matcher.ts)             *)
(*   Part 6  arbitrage calculators (src/src/arbitrage/matcher.ts)          *)
(*   Part 7  ArbitrageDetector  (src/unnamed/part_001) detect and          *)
(*           updateConfig.                                                 *)
(*   Part 8  opportunities store (src/src/stores/opportunities.ts)         *)
(*           background persistence and the scan history.                  *)
(*                                                                         *)
(* The specifications share the variables; each moves its own part and     *)
(* leaves the others in their initial state:                               *)
(*   SpecFetch / FairSpecFetch  DomeClient.fetch alone;                    *)
(*   Spec                       the markets store, where every page        *)
(*                              request is one DomeClient.fetch call that  *)
(*                              returns a page or throws an error;         *)
(*   SpecCache                  CacheManager calls and clock ticks;        *)
(*   SpecPages / FairSpecPages  one getAll...Markets call;                 *)
(*   SpecMatch / SpecScore      matchMarkets on lists / on one pair;       *)
(*   SpecArb                    the two calculators on one pair;           *)
(*   SpecDetect / SpecRepeat    detect and updateConfig calls / calls      *)
(*                              compared with an earlier call;             *)
(*   FairSpecRefresh            manual refreshes of the markets store      *)
(*                              under fair scheduling of the callbacks;    *)
(*   SpecScan                   detectOpportunities and its persistence.   *)
(***************************************************************************)
EXTENDS Integers, Sequences, FiniteSets, TLC

(***************************************************************************)
(* Bounds of the model                                                     *)
(***************************************************************************)
\* largest configured retryAttempts explored (the default is 2)
MaxRetries == 2
\* number of logical requests the fetch harness issues in one behaviour
MaxCalls == 2
\* market lists the upstream serves in one behaviour
MaxGen == 2
\* last tick of the model clock
MaxTime == 2
\* fetchAllMarkets invocations that pass the guard in one behaviour
MaxRefreshes == 2
\* pages of one paginated listing
MaxPages == 2
\* last tick of the clock of SpecCache
MaxCacheTime == 4
\* page requests one getAll...Markets call may issue in the model
MaxRequests == 4
\* markets on one page of the upstream
MaxPageSize == 2
\* length of the lists handed to matchMarkets
MaxMarkets == 2
\* detectOpportunities calls in one behaviour
MaxScans == 2
\* cross-market opportunities one detection result holds for persistence
MaxOpps == 2

(***************************************************************************)
(* Program constants                                                       *)
(***************************************************************************)
DEFAULT_RETRY_ATTEMPTS == 2

VARIABLES
  \* ---- DomeClient.fetch -------------------------------------------------
  retries,        \* this.config.retryAttempts
  fpc,            \* position of the call: idle, request, json, backoff, done
  attempt,        \* local `attempt`
  lastError,      \* local `lastError`
  timerArmed,     \* the setTimeout of the current attempt is pending
  aborted,        \* controller.abort() has run for the current attempt
  fresult,        \* how the call ended: none / returned payload / thrown error
  \* history of the current logical request (not read by the program)
  nRequests,      \* HTTP requests issued
  nWaits,         \* backoff sleeps started
  outcomes,       \* kind and status of each finished attempt, in order
  observed,       \* the error the latest failed attempt produced
  nCalls,         \* logical requests issued so far by the harness
  \* ---- markets store (signals of src/unnamed/part_003) --------------------
  markets,        \* kalshiMarkets / polymarketMarkets, by platform
  connected,      \* kalshiConnected / polymarketConnected, by platform
  loading,
  error,
  lastUpdated,
  domeConnected,
  dbConnected,
  dataSource,
  refreshInterval,\* the module-level timer handle
  activeTimers,   \* interval timers the runtime currently holds
  runs,           \* fetchAllMarkets invocations suspended at an await
  tasks,          \* persistMarketsToDb invocations suspended at an await
  \* ---- collaborators -----------------------------------------------------
  marketsCache,   \* CacheManager.marketsCache
  dbUp,           \* the database answers queries
  dbRows,         \* generation of the market rows stored per platform
  now,            \* Date.now()
  gen,            \* number of market lists the upstream has served
  \* ---- history (not read by the program) ---------------------------------
  lastCall,       \* outcome of the latest fetchAllMarkets invocation
  nRefreshes,     \* fetchAllMarkets invocations that passed the guard
  lastTimerOp,    \* the latest of startAutoRefresh / stopAutoRefresh, if any
  report,         \* what the refresh that completed last did, until the next starts
  \* ---- CacheManager (src/src/db/cache/manager.ts) -------------------------
  config,         \* this.config (marketsTtlMs)
  \* history (not read by the program)
  cacheOp,        \* the latest CacheManager call, its arguments and its result
  lastSet,        \* per key: the latest setCachedMarkets call not invalidated since
  \* ---- DomeClient.getAll...Markets (src/src/api/dome.ts) -------------------
  pagePc,         \* position of the call: idle, request, returned, thrown
  pagePlatform,   \* which of the two methods runs
  allMarkets,     \* local `allMarkets`
  offset,         \* local `offset`
  hasMore,        \* local `hasMore`
  listing,        \* upstream: number of pages of the listing, 0 = it never ends
  \* history (not read by the program)
  requests,       \* the offset of each page request issued, in order
  spacing,        \* per page request: the timer delays awaited since the request before
  served,         \* the pages the upstream answered with, in order
  \* ---- matchMarkets (src/src/arbitrage/matcher.ts) -------------------------
  kalshiMarkets,  \* argument
  polymarketMarkets, \* argument
  pairs,          \* the returned MarketPair[]
  matchPc,        \* ready: not called yet; done: returned
  \* ---- arbitrage calculators (src/src/arbitrage/matcher.ts) ----------------
  pair,           \* argument: the MarketPair (prices of both markets)
  fees,           \* argument: the FeeStructure
  arbResult,      \* the latest calculator call, its market and its result
  \* ---- ArbitrageDetector (src/unnamed/part_001) ---------------------------
  detectorConfig, \* this.config of the `detector` singleton
  detectResult,   \* the DetectionResult the latest detect call returned
  \* history (not read by the program)
  detectCall,     \* the arguments and the configuration of the latest detect call
  earlierCall,    \* an earlier detect call: its arguments, configuration and result
  \* ---- opportunities store (src/src/stores/opportunities.ts) --------------
  scanTasks,      \* persistOpportunitiesToDb invocations, each at its await
  scanHistory,    \* the status of each row of scan_history, by id
  lastScanId,     \* signal, 0 for null
  scanCount       \* signal

fetchVars == <<retries, fpc, attempt, lastError, timerArmed, aborted, fresult,
               nRequests, nWaits, outcomes, observed, nCalls>>

storeVars == <<markets, connected, loading, error, lastUpdated, domeConnected,
               dbConnected, dataSource, refreshInterval, activeTimers, runs, tasks,
               marketsCache, dbUp, dbRows, now, gen, lastCall, nRefreshes, lastTimerOp,
               report>>

cacheVars == <<config, cacheOp, lastSet>>

pageVars == <<pagePc, pagePlatform, allMarkets, offset, hasMore, listing, requests, spacing,
              served>>

matchVars == <<kalshiMarkets, polymarketMarkets, pairs, matchPc>>

arbVars == <<pair, fees, arbResult>>

detectVars == <<detectorConfig, detectResult, detectCall, earlierCall>>

scanVars == <<scanTasks, scanHistory, lastScanId, scanCount>>

\* the variables of the parts that follow the calculators
tailVars == <<detectVars, scanVars>>

\* the variables neither DomeClient.fetch nor the markets store writes
extraVars == <<cacheVars, pageVars, matchVars, arbVars, tailVars>>

vars == <<fetchVars, storeVars, extraVars>>

(***************************************************************************)
(* Part 1: DomeClient.fetch                                                *)
(***************************************************************************)

\* A JavaScript value that can be thrown: `isError` is `instanceof Error`,
\* `message` is the text as a sequence of words.
ErrorValue(isErr, name, msg) == [isError |-> isErr, name |-> name, message |-> msg]

\* `let lastError: unknown` before any assignment
Undefined == ErrorValue(FALSE, "undefined", <<>>)

\* String.prototype.toLowerCase on the words that occur in the model
ToLowerCase(w) ==
  CASE w = "Timeout"    -> "timeout"
    [] w = "Timed"      -> "timed"
    [] w = "Out"        -> "out"
    [] w = "ECONNRESET" -> "econnreset"
    [] w = "EAI_AGAIN"  -> "eai_again"
    [] w = "ENOTFOUND"  -> "enotfound"
    [] w = "Not"        -> "not"
    [] w = "Found"      -> "found"
    [] w = "Gateway"    -> "gateway"
    [] w = "Service"    -> "service"
    [] w = "Unavailable" -> "unavailable"
    [] w = "Unknown"    -> "unknown"
    [] w = "The"        -> "the"
    [] w = "Dome"       -> "dome"
    [] w = "API"        -> "api"
    [] OTHER            -> w

LowerCaseText(msg) == [i \in 1..Len(msg) |-> ToLowerCase(msg[i])]

\* String.prototype.includes, on word sequences
Includes(msg, needle) ==
  \E i \in 0..(Len(msg) - Len(needle)) :
     \A j \in 1..Len(needle) : msg[i + j] = needle[j]

\* variant: server errors are not retried
isRetryableStatus_No5xx(status) == status = 408 \/ status = 429

isRetryableStatus(status) == status = 408 \/ status = 429 \/ status >= 500

\* variant: the abort of a timed-out attempt is not recognised
isRetryableError_NoAbort(err) ==
  IF ~err.isError THEN FALSE
  ELSE LET message == LowerCaseText(err.message)
       IN  \/ Includes(message, <<"timeout">>)
           \/ Includes(message, <<"timed", "out">>)
           \/ Includes(message, <<"econnreset">>)
           \/ Includes(message, <<"eai_again">>)
           \/ Includes(message, <<"enotfound">>)

isRetryableError(err) ==
  IF ~err.isError THEN FALSE
  ELSE IF err.name = "AbortError" THEN TRUE
  ELSE LET message == LowerCaseText(err.message)
       IN  \/ Includes(message, <<"timeout">>)
           \/ Includes(message, <<"timed", "out">>)
           \/ Includes(message, <<"econnreset">>)
           \/ Includes(message, <<"eai_again">>)
           \/ Includes(message, <<"enotfound">>)

\* ---- what the upstream and the transport can do on one attempt ----------
Statuses == {404, 408, 429, 500, 503}
StatusTexts == { <<"Not", "Found">>, <<"Gateway", "Timeout">> }
\* response.text(); "Unknown error" is what the .catch() of a failed read yields
ErrorTexts == { <<"no", "such", "market">>, <<"upstream", "Timed", "Out">>, <<"Unknown", "error">> }
Payloads == [items : {"pageA", "pageB"}, has_more : BOOLEAN]

AbortError == ErrorValue(TRUE, "AbortError", <<"The", "operation", "was", "aborted">>)
\* rejections of fetch() other than the abort
TransportErrors ==
  { ErrorValue(TRUE, "Error", <<"read", "ECONNRESET">>),
    ErrorValue(TRUE, "Error", <<"getaddrinfo", "ENOTFOUND">>),
    ErrorValue(TRUE, "TypeError", <<"fetch", "failed">>),
    ErrorValue(FALSE, "string", <<"timeout">>) }
\* rejection of response.json() on a malformed body
SyntaxError == ErrorValue(TRUE, "SyntaxError", <<"Unexpected", "token">>)

\* new Error(`Dome API error: ${status} ${statusText} - ${errorText}`)
StatusError(status, statusText, errorText) ==
  ErrorValue(TRUE, "Error",
             <<"Dome", "API", "error:", ToString(status)>> \o statusText \o <<"-">> \o errorText)

Outcome(kind, status) == [kind |-> kind, status |-> status]

\* ---- the attempt loop ----------------------------------------------------
\* `let attempt = 0; let lastError` and the first iteration of the while loop
\* up to `await fetch(url, ...)`: new controller, timer set, request issued.
FetchBegin ==
  /\ attempt' = 0
  /\ lastError' = Undefined
  /\ timerArmed' = TRUE
  /\ aborted' = FALSE
  /\ fpc' = "request"
  /\ fresult' = [kind |-> "none", value |-> Undefined]
  /\ nRequests' = 1
  /\ nWaits' = 0
  /\ outcomes' = <<>>
  /\ observed' = Undefined

\* variant: the budget test is off by one (attempt <= retries)
CatchError_RetryPastBudget(err) ==
  /\ lastError' = err
  /\ IF attempt <= retries /\ isRetryableError(err)
       THEN /\ fpc' = "backoff"
            /\ nWaits' = nWaits + 1
            /\ UNCHANGED <<timerArmed, fresult>>
       ELSE /\ fpc' = "done"
            /\ timerArmed' = FALSE
            /\ fresult' = [kind |-> "thrown", value |-> err]
            /\ UNCHANGED nWaits

\* variant: the rethrow surfaces the previously stored error
CatchError_ThrowsPrevious(err) ==
  /\ lastError' = err
  /\ IF attempt < retries /\ isRetryableError(err)
       THEN /\ fpc' = "backoff"
            /\ nWaits' = nWaits + 1
            /\ UNCHANGED <<timerArmed, fresult>>
       ELSE /\ fpc' = "done"
            /\ timerArmed' = FALSE
            /\ fresult' = [kind |-> "thrown", value |-> lastError]
            /\ UNCHANGED nWaits

\* catch (error): lastError = error; retry when attempts remain and the error
\* is retryable, otherwise rethrow (finally: clearTimeout).
CatchError(err) ==
  /\ lastError' = err
  /\ IF attempt < retries /\ isRetryableError(err)
       THEN /\ fpc' = "backoff"
            /\ nWaits' = nWaits + 1
            /\ UNCHANGED <<timerArmed, fresult>>
       ELSE /\ fpc' = "done"
            /\ timerArmed' = FALSE
            /\ fresult' = [kind |-> "thrown", value |-> err]
            /\ UNCHANGED nWaits

\* The harness: a caller issues a logical request.
CallFetch ==
  /\ UNCHANGED <<storeVars, extraVars>>
  /\ fpc \in {"idle", "done"}
  /\ nCalls < MaxCalls
  /\ nCalls' = nCalls + 1
  /\ FetchBegin
  /\ UNCHANGED retries

\* fetch() resolves with an ok response: `return response.json()`; the finally
\* block clears the timer before the body has been read.
FetchResponseOk ==
  /\ UNCHANGED <<storeVars, extraVars>>
  /\ fpc = "request" /\ ~aborted
  /\ fpc' = "json"
  /\ timerArmed' = FALSE
  /\ UNCHANGED <<retries, attempt, lastError, aborted, fresult, nRequests, nWaits,
                 outcomes, observed, nCalls>>

\* response.json() settles: the payload, or a rejection that no catch sees.
JsonSettles ==
  /\ UNCHANGED <<storeVars, extraVars>>
  /\ fpc = "json"
  /\ fpc' = "done"
  /\ \/ \E p \in Payloads :
          /\ fresult' = [kind |-> "returned", value |-> p]
          /\ outcomes' = Append(outcomes, Outcome("ok", 200))
          /\ UNCHANGED observed
     \/ /\ fresult' = [kind |-> "thrown", value |-> SyntaxError]
        /\ outcomes' = Append(outcomes, Outcome("json", 200))
        /\ observed' = SyntaxError
  /\ UNCHANGED <<retries, attempt, lastError, timerArmed, aborted, nRequests, nWaits, nCalls>>

\* fetch() resolves with a response that is not ok.
FetchResponseNotOk ==
  /\ UNCHANGED <<storeVars, extraVars>>
  /\ fpc = "request" /\ ~aborted
  /\ \E status \in Statuses, statusText \in StatusTexts, errorText \in ErrorTexts :
       LET err == StatusError(status, statusText, errorText) IN
       /\ outcomes' = Append(outcomes, Outcome("status", status))
       /\ observed' = err
       /\ IF attempt < retries /\ isRetryableStatus(status)
            THEN /\ fpc' = "backoff"
                 /\ nWaits' = nWaits + 1
                 /\ UNCHANGED <<lastError, timerArmed, fresult>>
            ELSE CatchError(err)
  /\ UNCHANGED <<retries, attempt, aborted, nRequests, nCalls>>

\* fetch() rejects: with the AbortError when the controller has aborted,
\* with a transport error otherwise.
FetchRejects ==
  /\ UNCHANGED <<storeVars, extraVars>>
  /\ fpc = "request"
  /\ \E err \in (IF aborted THEN {AbortError} ELSE TransportErrors) :
       /\ outcomes' = Append(outcomes, Outcome(IF aborted THEN "abort" ELSE "transport", 0))
       /\ observed' = err
       /\ CatchError(err)
  /\ UNCHANGED <<retries, attempt, aborted, nRequests, nCalls>>

\* setTimeout(() => controller.abort(), timeoutMs) fires. The timer stays
\* armed during a backoff sleep, where the abort has nothing left to cancel.
TimeoutFires ==
  /\ UNCHANGED <<storeVars, extraVars>>
  /\ timerArmed /\ ~aborted
  /\ fpc \in {"request", "backoff"}
  /\ aborted' = TRUE
  /\ timerArmed' = FALSE
  /\ UNCHANGED <<retries, fpc, attempt, lastError, fresult, nRequests, nWaits,
                 outcomes, observed, nCalls>>

\* new Error("Dome API error: Request failed after retries")
GenericError ==
  ErrorValue(TRUE, "Error", <<"Dome", "API", "error:", "Request", "failed", "after", "retries">>)

\* sleep(getBackoffDelay(...)) resolves: attempt++, continue (finally:
\* clearTimeout), then the loop test: a new iteration (new controller, timer
\* set, request issued) or, past the loop, `throw lastError ?? new Error(...)`.
BackoffDone ==
  /\ UNCHANGED <<storeVars, extraVars>>
  /\ fpc = "backoff"
  /\ attempt' = attempt + 1
  /\ IF attempt + 1 <= retries
       THEN /\ aborted' = FALSE
            /\ timerArmed' = TRUE
            /\ fpc' = "request"
            /\ nRequests' = nRequests + 1
            /\ UNCHANGED fresult
       ELSE /\ timerArmed' = FALSE
            /\ fpc' = "done"
            /\ fresult' = [kind |-> "thrown",
                           value |-> IF lastError = Undefined THEN GenericError ELSE lastError]
            /\ UNCHANGED <<aborted, nRequests>>
  /\ UNCHANGED <<retries, lastError, nWaits, outcomes, observed, nCalls>>

(***************************************************************************)
(* Part 2: the markets store                                               *)
(***************************************************************************)
Platforms == {"kalshi", "polymarket"}

\* `const limit = 100` of the pagination loops
limit == 100

\* DEFAULT_CACHE_CONFIG.marketsTtlMs, in ticks of the model clock
marketsTtlMs == 2

\* ---- values ---------------------------------------------------------------
\* A market list is identified by the upstream generation it carries and by
\* who built it: the API client, or dbMarketToModel from database rows.
NoMarkets == [gen |-> 0, from |-> "none"]
LiveList(g) == [gen |-> g, from |-> "api"]
DbList(g) == [gen |-> g, from |-> "db"]

\* `null` of the error signal and of the local errorMessage
NullMessage == <<>>
\* `null` of the lastUpdated signal
NullDate == 0 - 1

FailedToFetch(platform) ==
  IF platform = "kalshi" THEN <<"Failed", "to", "fetch", "Kalshi", "markets">>
                         ELSE <<"Failed", "to", "fetch", "Polymarket", "markets">>
FailedToFetchMarkets == <<"Failed", "to", "fetch", "markets">>

\* what a page request (one DomeClient.fetch call) can throw
StoreFailures ==
  { AbortError,
    ErrorValue(FALSE, "string", <<"timeout">>) }

\* ---- CacheManager ---------------------------------------------------------
NoEntry == [present |-> FALSE, data |-> NoMarkets, timestamp |-> 0, ttlMs |-> 0]

\* variant: an entry is still valid at age = ttl
isValid_Inclusive(entry) ==
  IF ~entry.present THEN FALSE
  ELSE LET age == now - entry.timestamp IN age <= entry.ttlMs

isValid(entry) ==
  IF ~entry.present THEN FALSE
  ELSE LET age == now - entry.timestamp IN age < entry.ttlMs

\* Market[] | null : `hit` is "the result is not null"
getCachedMarkets(platform) ==
  LET entry == marketsCache[platform]
  IN  IF isValid(entry) THEN [hit |-> TRUE, data |-> entry.data]
                        ELSE [hit |-> FALSE, data |-> NoMarkets]

\* the cache map after setCachedMarkets(platform, list)
setCachedMarkets(platform, list) ==
  [marketsCache EXCEPT ![platform] =
     [present |-> TRUE, data |-> list, timestamp |-> now, ttlMs |-> config.marketsTtlMs]]

getCachedMarketsIfFresh(platform) == getCachedMarkets(platform)

\* ---- fetchAllMarkets ------------------------------------------------------
RemoveAt(seq, i) == SubSeq(seq, 1, i - 1) \o SubSeq(seq, i + 1, Len(seq))

None == [p \in Platforms |-> "none"]

\* the locals of an invocation that got past the cache check, suspended at
\* the first page request of Kalshi; live/source/cacheAt* are history
NewRun(forceRefresh) ==
  [pc |-> "api", platform |-> "kalshi", forceRefresh |-> forceRefresh,
   hasSuccess |-> FALSE, errorMessage |-> NullMessage, offset |-> 0,
   live |-> None, source |-> None,
   cacheAtStart |-> [p \in Platforms |-> isValid(marketsCache[p])],
   cacheAtFail |-> [p \in Platforms |-> FALSE]]

NoReport ==
  [kind |-> "none", forced |-> FALSE, live |-> None, source |-> None,
   cacheAtStart |-> [p \in Platforms |-> FALSE],
   cacheAtFail |-> [p \in Platforms |-> FALSE]]

ReportOf(kind, run) ==
  [kind |-> kind, forced |-> run.forceRefresh, live |-> run.live, source |-> run.source,
   cacheAtStart |-> run.cacheAtStart, cacheAtFail |-> run.cacheAtFail]

\* variant: no `if (loading()) return`
FetchAllMarkets_NoGuard(forceRefresh) ==
  LET cachedKalshi == getCachedMarketsIfFresh("kalshi")
      cachedPoly == getCachedMarketsIfFresh("polymarket")
       IN  /\ nRefreshes < MaxRefreshes
           /\ nRefreshes' = nRefreshes + 1
           /\ IF ~forceRefresh /\ cachedKalshi.hit /\ cachedPoly.hit
             THEN /\ markets' = [p \in Platforms |->
                                   IF p = "kalshi" THEN cachedKalshi.data
                                                   ELSE cachedPoly.data]
                  /\ connected' = [p \in Platforms |-> TRUE]
                  /\ dataSource' = "cache"
                  /\ lastUpdated' = now
                  /\ loading' = FALSE
                  /\ error' = NullMessage
                  /\ lastCall' = "cached"
                  /\ report' = ReportOf("cached",
                                 [NewRun(forceRefresh) EXCEPT
                                    !.source = [p \in Platforms |-> "cache"]])
                  /\ UNCHANGED runs
             ELSE /\ loading' = TRUE
                  /\ error' = NullMessage
                  /\ runs' = Append(runs, NewRun(forceRefresh))
                  /\ lastCall' = "started"
                  /\ report' = NoReport
                  /\ UNCHANGED <<markets, connected, lastUpdated, dataSource>>

\* fetchAllMarkets(forceRefresh) from its entry to its first await (or to its
\* return, on the guard and on the both-cached path).
FetchAllMarkets(forceRefresh) ==
  IF loading
    THEN /\ lastCall' = "noop"
         /\ UNCHANGED <<markets, connected, loading, error, lastUpdated, dataSource,
                        runs, nRefreshes, report>>
    ELSE LET cachedKalshi == getCachedMarketsIfFresh("kalshi")
             cachedPoly == getCachedMarketsIfFresh("polymarket")
         IN  /\ nRefreshes < MaxRefreshes
             /\ nRefreshes' = nRefreshes + 1
             /\ IF ~forceRefresh /\ cachedKalshi.hit /\ cachedPoly.hit
               THEN /\ markets' = [p \in Platforms |->
                                     IF p = "kalshi" THEN cachedKalshi.data
                                                     ELSE cachedPoly.data]
                    /\ connected' = [p \in Platforms |-> TRUE]
                    /\ dataSource' = "cache"
                    /\ lastUpdated' = now
                    /\ loading' = FALSE
                    /\ error' = NullMessage
                    /\ lastCall' = "cached"
                    /\ report' = ReportOf("cached",
                                   [NewRun(forceRefresh) EXCEPT
                                      !.source = [p \in Platforms |-> "cache"]])
                    /\ UNCHANGED runs
               ELSE /\ loading' = TRUE
                    /\ error' = NullMessage
                    /\ runs' = Append(runs, NewRun(forceRefresh))
                    /\ lastCall' = "started"
                    /\ report' = NoReport
                    /\ UNCHANGED <<markets, connected, lastUpdated, dataSource>>

\* stopAutoRefresh(), as the pair <<refreshInterval, activeTimers>> it leaves
stopAutoRefresh ==
  IF refreshInterval # "null"
    THEN [refreshInterval |-> "null", activeTimers |-> activeTimers - 1]
    ELSE [refreshInterval |-> refreshInterval, activeTimers |-> activeTimers]

\* the UI calls refresh()
ManualRefresh ==
  /\ \E forceRefresh \in BOOLEAN : FetchAllMarkets(forceRefresh)
  /\ UNCHANGED <<domeConnected, dbConnected, refreshInterval, activeTimers, lastTimerOp, tasks,
                 marketsCache, dbUp, dbRows, now, gen>>
  /\ UNCHANGED <<fetchVars, extraVars>>

\* an interval timer fires: setInterval(fetchAllMarkets, intervalMs)
TimerTick ==
  /\ activeTimers > 0
  /\ FetchAllMarkets(FALSE)
  /\ UNCHANGED <<domeConnected, dbConnected, refreshInterval, activeTimers, lastTimerOp, tasks,
                 marketsCache, dbUp, dbRows, now, gen>>
  /\ UNCHANGED <<fetchVars, extraVars>>

\* variant: startAutoRefresh without the leading stopAutoRefresh()
StartAutoRefresh_NoStop ==
  /\ FetchAllMarkets(FALSE)
  /\ refreshInterval' = "timer"
  /\ activeTimers' = activeTimers + 1
  /\ lastTimerOp' = (IF refreshInterval # "null" THEN "restart" ELSE "start")
  /\ UNCHANGED <<domeConnected, dbConnected, tasks, marketsCache, dbUp, dbRows, now, gen>>
  /\ UNCHANGED <<fetchVars, extraVars>>

StartAutoRefresh ==
  /\ FetchAllMarkets(FALSE)
  /\ refreshInterval' = "timer"
  /\ activeTimers' = stopAutoRefresh.activeTimers + 1
  /\ lastTimerOp' = (IF refreshInterval # "null" THEN "restart" ELSE "start")
  /\ UNCHANGED <<domeConnected, dbConnected, tasks, marketsCache, dbUp, dbRows, now, gen>>
  /\ UNCHANGED <<fetchVars, extraVars>>

StopAutoRefresh ==
  /\ refreshInterval' = stopAutoRefresh.refreshInterval
  /\ activeTimers' = stopAutoRefresh.activeTimers
  /\ lastTimerOp' = "stop"
  /\ UNCHANGED <<markets, connected, loading, error, lastUpdated, domeConnected,
                 dbConnected, dataSource, runs, tasks, marketsCache, dbUp, dbRows,
                 now, gen, lastCall, nRefreshes, report>>
  /\ UNCHANGED <<fetchVars, extraVars>>

\* variant: no `finally { setLoading(false) }`
EndOfBlock_KeepsLoading(i, run) ==
  IF run.platform = "kalshi"
    THEN /\ runs' = [runs EXCEPT ![i] = [run EXCEPT !.pc = "sleep"]]
         /\ UNCHANGED <<loading, error, lastUpdated, domeConnected, report>>
    ELSE /\ IF run.hasSuccess
              THEN /\ domeConnected' = TRUE
                   /\ lastUpdated' = now
                   /\ UNCHANGED error
              ELSE /\ error' = (IF run.errorMessage = NullMessage
                                 THEN FailedToFetchMarkets ELSE run.errorMessage)
                   /\ domeConnected' = FALSE
                   /\ UNCHANGED lastUpdated
         /\ UNCHANGED loading
         /\ runs' = RemoveAt(runs, i)
         /\ report' = ReportOf("fetched", run)

\* The end of a platform's try/catch block. After Kalshi: the 1100 ms sleep.
\* After Polymarket: the hasSuccess test, the finally block, and the return.
EndOfBlock(i, run) ==
  IF run.platform = "kalshi"
    THEN /\ runs' = [runs EXCEPT ![i] = [run EXCEPT !.pc = "sleep"]]
         /\ UNCHANGED <<loading, error, lastUpdated, domeConnected, report>>
    ELSE /\ IF run.hasSuccess
              THEN /\ domeConnected' = TRUE
                   /\ lastUpdated' = now
                   /\ UNCHANGED error
              ELSE /\ error' = (IF run.errorMessage = NullMessage
                                 THEN FailedToFetchMarkets ELSE run.errorMessage)
                   /\ domeConnected' = FALSE
                   /\ UNCHANGED lastUpdated
         /\ loading' = FALSE
         /\ runs' = RemoveAt(runs, i)
         /\ report' = ReportOf("fetched", run)

\* A page request resolves with has_more: the loop adds `limit` to the offset
\* and requests the next page at once.
PageHasMore ==
  /\ \E i \in 1..Len(runs) :
       /\ runs[i].pc = "api"
       /\ runs[i].offset + limit < MaxPages * limit
       /\ runs' = [runs EXCEPT ![i].offset = @ + limit]
  /\ UNCHANGED <<markets, connected, loading, error, lastUpdated, domeConnected,
                 dbConnected, dataSource, refreshInterval, activeTimers, lastTimerOp, tasks,
                 marketsCache, dbUp, dbRows, now, gen, lastCall, nRefreshes, report>>
  /\ UNCHANGED <<fetchVars, extraVars>>

\* The last page arrives: getAll...Markets returns, the list is published and
\* persistMarketsToDb is called without await (it runs up to its first await).
PageLast ==
  /\ gen < MaxGen
  /\ \E i \in 1..Len(runs) :
       LET run == runs[i]
           p == run.platform
           list == LiveList(gen + 1)
       IN  /\ run.pc = "api"
           /\ gen' = gen + 1
           /\ markets' = [markets EXCEPT ![p] = list]
           /\ connected' = [connected EXCEPT ![p] = TRUE]
           /\ dataSource' = "api"
           /\ tasks' = tasks \cup {[platform |-> p, data |-> list, pc |-> "check"]}
           /\ EndOfBlock(i, [run EXCEPT !.hasSuccess = TRUE, !.live[p] = "ok",
                                        !.source[p] = "api", !.offset = @ + limit])
  /\ UNCHANGED <<dbConnected, refreshInterval, activeTimers, lastTimerOp, marketsCache, dbUp,
                 dbRows, now, lastCall, nRefreshes>>
  /\ UNCHANGED <<fetchVars, extraVars>>

\* variant: no try/catch around the platform's fetch, the failure reaches the
\* outer catch and ends the refresh
PageThrows_NoIsolation ==
  /\ \E i \in 1..Len(runs), err \in StoreFailures :
       LET run == runs[i]
           p == run.platform
       IN  /\ run.pc = "api"
           /\ error' = (IF err.isError THEN err.message ELSE FailedToFetchMarkets)
           /\ domeConnected' = FALSE
           /\ loading' = FALSE
           /\ runs' = RemoveAt(runs, i)
           /\ report' = ReportOf("fetched", [run EXCEPT !.live[p] = "failed"])
  /\ UNCHANGED <<markets, connected, lastUpdated, dbConnected, dataSource,
                 refreshInterval, activeTimers, lastTimerOp, tasks, marketsCache, dbUp, dbRows, now,
                 gen, lastCall, nRefreshes>>
  /\ UNCHANGED <<fetchVars, extraVars>>

\* A page request throws: the catch block up to `await loadMarketsFromDb`,
\* which itself runs up to `await isDatabaseAvailable()`.
PageThrows ==
  /\ \E i \in 1..Len(runs), err \in StoreFailures :
       LET run == runs[i]
           p == run.platform
       IN  /\ run.pc = "api"
           /\ connected' = [connected EXCEPT ![p] = FALSE]
           /\ runs' = [runs EXCEPT ![i] =
                 [run EXCEPT !.pc = "dbcheck",
                             !.errorMessage = IF err.isError THEN err.message
                                                             ELSE FailedToFetch(p),
                             !.live[p] = "failed",
                             !.cacheAtFail[p] = isValid(marketsCache[p])]]
  /\ UNCHANGED <<markets, loading, error, lastUpdated, domeConnected, dbConnected,
                 dataSource, refreshInterval, activeTimers, lastTimerOp, tasks, marketsCache, dbUp,
                 dbRows, now, gen, lastCall, nRefreshes, report>>
  /\ UNCHANGED <<fetchVars, extraVars>>

\* loadMarketsFromDb: isDatabaseAvailable() resolves. Not available: return [],
\* so the caller's `dbMarkets.length > 0` fails and the block ends.
LoadDbCheck ==
  /\ \E i \in 1..Len(runs) :
       /\ runs[i].pc = "dbcheck"
       /\ IF dbUp
            THEN /\ runs' = [runs EXCEPT ![i].pc = "dbload"]
                 /\ UNCHANGED <<loading, error, lastUpdated, domeConnected, report>>
            ELSE EndOfBlock(i, runs[i])
  /\ UNCHANGED <<markets, connected, dbConnected, dataSource, refreshInterval,
                 activeTimers, lastTimerOp, tasks, marketsCache, dbUp, dbRows, now, gen, lastCall, nRefreshes>>
  /\ UNCHANGED <<fetchVars, extraVars>>

\* variant: the caller publishes what the database returned, empty or not
LoadDbRows_PublishesEmpty ==
  /\ \E i \in 1..Len(runs), ok \in BOOLEAN :
       LET run == runs[i]
           p == run.platform
           dbMarkets == IF ok /\ dbRows[p] > 0 THEN DbList(dbRows[p]) ELSE NoMarkets
       IN  /\ run.pc = "dbload"
           /\ ok => dbUp
           /\ markets' = [markets EXCEPT ![p] = dbMarkets]
           /\ IF dbMarkets # NoMarkets
                THEN /\ dataSource' = "db"
                     /\ EndOfBlock(i, [run EXCEPT !.hasSuccess = TRUE, !.source[p] = "db"])
                ELSE /\ UNCHANGED dataSource
                     /\ EndOfBlock(i, run)
  /\ UNCHANGED <<connected, dbConnected, refreshInterval, activeTimers, lastTimerOp, tasks,
                 marketsCache, dbUp, dbRows, now, gen, lastCall, nRefreshes>>
  /\ UNCHANGED <<fetchVars, extraVars>>

\* loadMarketsFromDb: getMarketsWithLatestSnapshot resolves with the stored
\* rows or throws (caught: return []); then the caller's length test.
LoadDbRows ==
  /\ \E i \in 1..Len(runs), ok \in BOOLEAN :
       LET run == runs[i]
           p == run.platform
           dbMarkets == IF ok /\ dbRows[p] > 0 THEN DbList(dbRows[p]) ELSE NoMarkets
       IN  /\ run.pc = "dbload"
           /\ ok => dbUp
           /\ IF dbMarkets # NoMarkets
                THEN /\ markets' = [markets EXCEPT ![p] = dbMarkets]
                     /\ dataSource' = "db"
                     /\ EndOfBlock(i, [run EXCEPT !.hasSuccess = TRUE, !.source[p] = "db"])
                ELSE /\ UNCHANGED <<markets, dataSource>>
                     /\ EndOfBlock(i, run)
  /\ UNCHANGED <<connected, dbConnected, refreshInterval, activeTimers, lastTimerOp, tasks,
                 marketsCache, dbUp, dbRows, now, gen, lastCall, nRefreshes>>
  /\ UNCHANGED <<fetchVars, extraVars>>

\* the 1100 ms sleep between the platforms resolves; the first Polymarket page
\* is requested
SleepDone ==
  /\ \E i \in 1..Len(runs) :
       /\ runs[i].pc = "sleep"
       /\ runs' = [runs EXCEPT ![i] = [@ EXCEPT !.pc = "api", !.platform = "polymarket",
                                                !.offset = 0]]
  /\ UNCHANGED <<markets, connected, loading, error, lastUpdated, domeConnected,
                 dbConnected, dataSource, refreshInterval, activeTimers, lastTimerOp, tasks,
                 marketsCache, dbUp, dbRows, now, gen, lastCall, nRefreshes, report>>
  /\ UNCHANGED <<fetchVars, extraVars>>

\* ---- persistMarketsToDb ---------------------------------------------------
\* variant: the cache is updated before the database is asked
PersistDbCheck_CachesFirst ==
  /\ \E t \in tasks :
       /\ t.pc = "check"
       /\ marketsCache' = setCachedMarkets(t.platform, t.data)
       /\ IF dbUp
            THEN /\ dbConnected' = TRUE
                 /\ tasks' = (tasks \ {t}) \cup {[t EXCEPT !.pc = "upsert"]}
            ELSE /\ dbConnected' = FALSE
                 /\ tasks' = tasks \ {t}
  /\ UNCHANGED <<markets, connected, loading, error, lastUpdated, domeConnected,
                 dataSource, refreshInterval, activeTimers, lastTimerOp, runs, dbUp,
                 dbRows, now, gen, lastCall, nRefreshes, report>>
  /\ UNCHANGED <<fetchVars, extraVars>>

\* isDatabaseAvailable() resolves
PersistDbCheck ==
  /\ \E t \in tasks :
       /\ t.pc = "check"
       /\ IF dbUp
            THEN /\ dbConnected' = TRUE
                 /\ tasks' = (tasks \ {t}) \cup {[t EXCEPT !.pc = "upsert"]}
            ELSE /\ dbConnected' = FALSE
                 /\ tasks' = tasks \ {t}
  /\ UNCHANGED <<markets, connected, loading, error, lastUpdated, domeConnected,
                 dataSource, refreshInterval, activeTimers, lastTimerOp, runs, marketsCache, dbUp,
                 dbRows, now, gen, lastCall, nRefreshes, report>>
  /\ UNCHANGED <<fetchVars, extraVars>>

\* variant: no try/catch in persistMarketsToDb, a throwing upsert surfaces as
\* the error of the store
PersistUpsert_Uncaught ==
  /\ \E t \in tasks :
       /\ t.pc = "upsert"
       /\ \/ /\ dbUp
             /\ dbRows' = [dbRows EXCEPT ![t.platform] = t.data.gen]
             /\ tasks' = (tasks \ {t}) \cup {[t EXCEPT !.pc = "snapshots"]}
             /\ UNCHANGED error
          \/ /\ tasks' = tasks \ {t}
             /\ error' = FailedToFetchMarkets
             /\ UNCHANGED dbRows
  /\ UNCHANGED <<markets, connected, loading, lastUpdated, domeConnected,
                 dbConnected, dataSource, refreshInterval, activeTimers, lastTimerOp, runs,
                 marketsCache, dbUp, now, gen, lastCall, nRefreshes, report>>
  /\ UNCHANGED <<fetchVars, extraVars>>

\* upsertMarkets resolves (every market gets an id, so snapshots follow) or
\* throws (caught and logged)
PersistUpsert ==
  /\ \E t \in tasks :
       /\ t.pc = "upsert"
       /\ \/ /\ dbUp
             /\ dbRows' = [dbRows EXCEPT ![t.platform] = t.data.gen]
             /\ tasks' = (tasks \ {t}) \cup {[t EXCEPT !.pc = "snapshots"]}
          \/ /\ tasks' = tasks \ {t}
             /\ UNCHANGED dbRows
  /\ UNCHANGED <<markets, connected, loading, error, lastUpdated, domeConnected,
                 dbConnected, dataSource, refreshInterval, activeTimers, lastTimerOp, runs,
                 marketsCache, dbUp, now, gen, lastCall, nRefreshes, report>>
  /\ UNCHANGED <<fetchVars, extraVars>>

\* insertSnapshots resolves, then cacheManager.setCachedMarkets; or it throws
PersistSnapshots ==
  /\ \E t \in tasks :
       /\ t.pc = "snapshots"
       /\ tasks' = tasks \ {t}
       /\ \/ /\ dbUp
             /\ marketsCache' = setCachedMarkets(t.platform, t.data)
          \/ UNCHANGED marketsCache
  /\ UNCHANGED <<markets, connected, loading, error, lastUpdated, domeConnected,
                 dbConnected, dataSource, refreshInterval, activeTimers, lastTimerOp, runs, dbUp,
                 dbRows, now, gen, lastCall, nRefreshes, report>>
  /\ UNCHANGED <<fetchVars, extraVars>>

\* ---- environment ----------------------------------------------------------
DbToggle ==
  /\ dbUp' = ~dbUp
  /\ UNCHANGED <<markets, connected, loading, error, lastUpdated, domeConnected,
                 dbConnected, dataSource, refreshInterval, activeTimers, lastTimerOp, runs, tasks,
                 marketsCache, dbRows, now, gen, lastCall, nRefreshes, report>>
  /\ UNCHANGED <<fetchVars, extraVars>>

Tick ==
  /\ now < MaxTime
  /\ now' = now + 1
  /\ UNCHANGED <<markets, connected, loading, error, lastUpdated, domeConnected,
                 dbConnected, dataSource, refreshInterval, activeTimers, lastTimerOp, runs, tasks,
                 marketsCache, dbUp, dbRows, gen, lastCall, nRefreshes, report>>
  /\ UNCHANGED <<fetchVars, extraVars>>

(***************************************************************************)
(* Part 3: CacheManager on its own                                         *)
(*                                                                         *)
(* The clock of SpecCache ticks every 500 ms, so that ttl values on both   *)
(* sides of the 1000 ms "live" window occur.                               *)
(***************************************************************************)
\* the 1000 of `ageMs < 1000`, in ticks
liveWindowMs == 2

\* the values of marketsTtlMs explored, in ticks: 500 ms and 1500 ms
CacheTtls == {1, 3}

\* the market lists handed to setCachedMarkets
CacheValues == {LiveList(1), LiveList(2)}

\* getAge of a missing entry
Infinity == 1000000

getAge(entry) ==
  IF ~entry.present THEN Infinity ELSE now - entry.timestamp

getMarketsFreshness(platform) ==
  LET entry == marketsCache[platform]
      ageMs == getAge(entry)
  IN  [isStale |-> ~isValid(entry),
       ageMs |-> ageMs,
       source |-> IF ageMs < liveWindowMs THEN "api"
                  ELSE IF ageMs < config.marketsTtlMs THEN "cache"
                  ELSE "db"]

NoOp == [op |-> "none"]
NeverSet == [present |-> FALSE, data |-> NoMarkets, at |-> 0, ttl |-> 0]

\* what SpecCache leaves alone
cacheFrame == <<fetchVars, markets, connected, loading, error, lastUpdated,
                domeConnected, dbConnected, dataSource, refreshInterval, activeTimers,
                runs, tasks, dbUp, dbRows, gen, lastCall, nRefreshes, lastTimerOp,
                report, pageVars, matchVars, arbVars, tailVars>>

CacheGet ==
  /\ \E platform \in Platforms :
       LET r == getCachedMarkets(platform)
       IN  cacheOp' = [op |-> "get", key |-> platform, at |-> now,
                       hit |-> r.hit, data |-> r.data]
  /\ UNCHANGED <<marketsCache, config, lastSet, now, cacheFrame>>

CacheSet ==
  /\ \E platform \in Platforms, list \in CacheValues :
       /\ marketsCache' = setCachedMarkets(platform, list)
       /\ cacheOp' = [op |-> "set", key |-> platform, at |-> now, data |-> list]
       /\ lastSet' = [lastSet EXCEPT ![platform] =
                        [present |-> TRUE, data |-> list, at |-> now,
                         ttl |-> config.marketsTtlMs]]
  /\ UNCHANGED <<config, now, cacheFrame>>

CacheFreshness ==
  /\ \E platform \in Platforms :
       LET f == getMarketsFreshness(platform)
       IN  cacheOp' = [op |-> "freshness", key |-> platform, at |-> now,
                       isStale |-> f.isStale, ageMs |-> f.ageMs, source |-> f.source]
  /\ UNCHANGED <<marketsCache, config, lastSet, now, cacheFrame>>

\* invalidateMarkets(platform)
CacheInvalidate ==
  /\ \E platform \in Platforms :
       /\ marketsCache' = [marketsCache EXCEPT ![platform] = NoEntry]
       /\ lastSet' = [lastSet EXCEPT ![platform] = NeverSet]
       /\ cacheOp' = [op |-> "invalidate", key |-> platform, at |-> now]
  /\ UNCHANGED <<config, now, cacheFrame>>

\* updateConfig({ marketsTtlMs })
UpdateConfig ==
  /\ \E ttl \in CacheTtls :
       /\ config' = [config EXCEPT !.marketsTtlMs = ttl]
       /\ cacheOp' = [op |-> "updateConfig", at |-> now, ttl |-> ttl]
  /\ UNCHANGED <<marketsCache, lastSet, now, cacheFrame>>

\* Date.now() advances by one tick
AdvanceClock ==
  /\ now < MaxCacheTime
  /\ now' = now + 1
  /\ UNCHANGED <<marketsCache, config, cacheOp, lastSet, cacheFrame>>

(***************************************************************************)
(* Part 4: DomeClient.getAllKalshiMarkets / getAllPolymarketMarkets        *)
(***************************************************************************)
\* what SpecPages leaves alone
pageFrame == <<fetchVars, storeVars, cacheVars, matchVars, arbVars, tailVars>>

\* the raw markets of a page of n items at an offset
RawPage(o, n) == [j \in 1..n |-> o + j]

\* transformKalshiMarket / transformPolymarketMarket
transformMarket(platform, m) == [platform |-> platform, id |-> m]

\* response.markets.map((m) => this.transform...Market(m))
MapTransform(platform, page) ==
  [j \in 1..Len(page) |-> transformMarket(platform, page[j])]

\* the concatenation of the transformed pages, in order
RECURSIVE ConcatPages(_, _)
ConcatPages(platform, pages) ==
  IF pages = <<>> THEN <<>>
  ELSE ConcatPages(platform, SubSeq(pages, 1, Len(pages) - 1))
         \o MapTransform(platform, pages[Len(pages)].markets)

\* getAllKalshiMarkets / getAllPolymarketMarkets up to the first await: the
\* request for offset 0 is issued
CallGetAll ==
  /\ pagePc = "idle"
  /\ \E platform \in Platforms : pagePlatform' = platform
  /\ allMarkets' = <<>>
  /\ offset' = 0
  /\ hasMore' = TRUE
  /\ pagePc' = "request"
  /\ requests' = <<0>>
  /\ spacing' = <<0>>
  /\ UNCHANGED <<listing, served, pageFrame>>

\* variant: the loop also stops on an empty page
PageResponse_StopsOnEmptyPage ==
  /\ pagePc = "request"
  /\ \E n \in 0..MaxPageSize :
       LET response == [markets |-> RawPage(offset, n),
                        pagination |-> [has_more |-> listing = 0 \/ Len(served) + 1 < listing]]
           more == response.pagination.has_more /\ n > 0
       IN  /\ more => Len(requests) < MaxRequests
           /\ allMarkets' = allMarkets \o MapTransform(pagePlatform, response.markets)
           /\ hasMore' = more
           /\ offset' = offset + limit
           /\ served' = Append(served, response)
           /\ IF more
                THEN /\ requests' = Append(requests, offset + limit)
                     /\ spacing' = Append(spacing, 0)
                     /\ UNCHANGED pagePc
                ELSE /\ pagePc' = "returned"
                     /\ UNCHANGED <<requests, spacing>>
  /\ UNCHANGED <<pagePlatform, listing, pageFrame>>

\* A page request resolves: push the transformed markets, take has_more, add
\* limit to the offset; then the loop test: the next request, or the return.
\* The loop awaits nothing but the request, so the next request follows the
\* response without a timer delay.
PageResponse ==
  /\ pagePc = "request"
  /\ \E n \in 0..MaxPageSize :
       LET response == [markets |-> RawPage(offset, n),
                        pagination |-> [has_more |-> listing = 0 \/ Len(served) + 1 < listing]]
           more == response.pagination.has_more
       IN  /\ more => Len(requests) < MaxRequests
           /\ allMarkets' = allMarkets \o MapTransform(pagePlatform, response.markets)
           /\ hasMore' = more
           /\ offset' = offset + limit
           /\ served' = Append(served, response)
           /\ IF more
                THEN /\ requests' = Append(requests, offset + limit)
                     /\ spacing' = Append(spacing, 0)
                     /\ UNCHANGED pagePc
                ELSE /\ pagePc' = "returned"
                     /\ UNCHANGED <<requests, spacing>>
  /\ UNCHANGED <<pagePlatform, listing, pageFrame>>

\* A page request throws (DomeClient.fetch gave up): the call rejects
PageRequestFails ==
  /\ pagePc = "request"
  /\ pagePc' = "thrown"
  /\ UNCHANGED <<pagePlatform, allMarkets, offset, hasMore, listing, requests, spacing,
                 served, pageFrame>>

(***************************************************************************)
(* Part 5: the market matcher (src/src/arbitrage/matcher.ts)               *)
(*                                                                         *)
(* A string is the sequence of its characters. A number computed by the   *)
(* matcher is an exact fraction [num, den] with den > 0.                   *)
(***************************************************************************)
\* what SpecMatch and SpecScore leave alone
matchFrame == <<fetchVars, storeVars, cacheVars, pageVars, arbVars, tailVars>>

\* ---- strings --------------------------------------------------------------
\* String.prototype.toLowerCase, one character
LowerChar(c) ==
  CASE c = "A" -> "a"
    [] c = "B" -> "b"
    [] c = "C" -> "c"
    [] c = "D" -> "d"
    [] c = "E" -> "e"
    [] c = "F" -> "f"
    [] c = "G" -> "g"
    [] c = "H" -> "h"
    [] c = "I" -> "i"
    [] c = "J" -> "j"
    [] c = "K" -> "k"
    [] c = "L" -> "l"
    [] c = "M" -> "m"
    [] c = "N" -> "n"
    [] c = "O" -> "o"
    [] c = "P" -> "p"
    [] c = "Q" -> "q"
    [] c = "R" -> "r"
    [] c = "S" -> "s"
    [] c = "T" -> "t"
    [] c = "U" -> "u"
    [] c = "V" -> "v"
    [] c = "W" -> "w"
    [] c = "X" -> "x"
    [] c = "Y" -> "y"
    [] c = "Z" -> "z"
    [] OTHER -> c

toLowerCase(s) == [i \in 1..Len(s) |-> LowerChar(s[i])]

\* the character classes of /[^a-z0-9\s]/ and /\s+/
AlphaNumeric ==
  {"a", "b", "c", "d", "e", "f", "g", "h", "i", "j", "k", "l", "m", "n", "o", "p", "q", "r", "s", "t", "u", "v", "w", "x", "y", "z", "0", "1", "2", "3", "4", "5", "6", "7", "8", "9"}
WhiteSpace == {" ", "\t"}

IsKept(c) == c \in AlphaNumeric \cup WhiteSpace

\* .replace(/\s+/g, " "): every run of white space becomes one space
RECURSIVE CollapseSpaces(_)
CollapseSpaces(s) ==
  IF s = <<>> THEN <<>>
  ELSE IF s[1] \in WhiteSpace
         THEN IF Len(s) > 1 /\ s[2] \in WhiteSpace
                THEN CollapseSpaces(Tail(s))
                ELSE <<" ">> \o CollapseSpaces(Tail(s))
         ELSE <<s[1]>> \o CollapseSpaces(Tail(s))

\* .trim()
RECURSIVE Trim(_)
Trim(s) ==
  IF s = <<>> THEN <<>>
  ELSE IF s[1] \in WhiteSpace THEN Trim(Tail(s))
  ELSE IF s[Len(s)] \in WhiteSpace THEN Trim(SubSeq(s, 1, Len(s) - 1))
  ELSE s

normalizeTitle(title) ==
  Trim(CollapseSpaces(SelectSeq(toLowerCase(title), IsKept)))

\* .split(" "): the pieces between single spaces (one empty piece for "")
RECURSIVE SplitAcc(_, _, _)
SplitAcc(s, word, words) ==
  IF s = <<>> THEN Append(words, word)
  ELSE IF s[1] = " " THEN SplitAcc(Tail(s), <<>>, Append(words, word))
  ELSE SplitAcc(Tail(s), Append(word, s[1]), words)

Split(s) == SplitAcc(s, <<>>, <<>>)

Min2(a, b) == IF a < b THEN a ELSE b
Max2(a, b) == IF a > b THEN a ELSE b

\* one row of the matrix: row i from row i-1 and the character b.charAt(i-1)
RECURSIVE LevRow(_, _, _, _)
LevRow(a, bc, prev, row) ==
  IF Len(row) = Len(a) + 1 THEN row
  ELSE LET j == Len(row)
           cell == IF bc = a[j] THEN prev[j]
                   ELSE Min2(prev[j] + 1, Min2(row[j] + 1, prev[j + 1] + 1))
       IN  LevRow(a, bc, prev, Append(row, cell))

RECURSIVE LevRows(_, _, _, _)
LevRows(a, b, i, prev) ==
  IF i > Len(b) THEN prev[Len(a) + 1]
  ELSE LevRows(a, b, i + 1, LevRow(a, b[i], prev, <<i>>))

levenshteinDistance(a, b) ==
  LevRows(a, b, 1, [j \in 1..(Len(a) + 1) |-> j - 1])

\* ---- fractions ------------------------------------------------------------
Frac(n, d) == [num |-> n, den |-> d]
FracGT(x, y) == x.num * y.den > y.num * x.den

calculateSimilarity(a, b) ==
  LET normalizedA == normalizeTitle(a)
      normalizedB == normalizeTitle(b)
      distance == levenshteinDistance(normalizedA, normalizedB)
      maxLength == Max2(Len(normalizedA), Len(normalizedB))
  IN  IF normalizedA = normalizedB THEN Frac(1, 1)
      ELSE IF maxLength = 0 THEN Frac(1, 1)
      ELSE Frac(maxLength - distance, maxLength)

stopWords ==
  {<<"t", "h", "e">>,
   <<"a">>,
   <<"a", "n">>,
   <<"i", "s">>,
   <<"a", "r", "e">>,
   <<"w", "i", "l", "l">>,
   <<"b", "e">>,
   <<"t", "o">>,
   <<"i", "n">>,
   <<"o", "n">>,
   <<"a", "t">>,
   <<"f", "o", "r">>,
   <<"o", "f">>,
   <<"b", "y">>,
   <<"w", "i", "t", "h">>,
   <<"i", "f">>,
   <<"o", "r">>,
   <<"a", "n", "d">>,
   <<"t", "h", "i", "s">>,
   <<"t", "h", "a", "t">>}

\* the set of the keywords (new Set(extractKeywords(title)))
extractKeywords(title) ==
  LET words == Split(normalizeTitle(title))
  IN  {words[i] : i \in {k \in 1..Len(words) :
                           Len(words[k]) > 2 /\ words[k] \notin stopWords}}

keywordOverlap(a, b) ==
  LET keywordsA == extractKeywords(a)
      keywordsB == extractKeywords(b)
      overlap == Cardinality(keywordsA \cap keywordsB)
  IN  IF keywordsA = {} \/ keywordsB = {} THEN Frac(0, 1)
      ELSE Frac(overlap, Min2(Cardinality(keywordsA), Cardinality(keywordsB)))

\* ---- dates and categories -------------------------------------------------
\* `undefined` of the optional endDate
NoDate == [defined |-> FALSE, year |-> 0, month |-> 0, date |-> 0, hours |-> 0]
DateOf(y, m, d, h) == [defined |-> TRUE, year |-> y, month |-> m, date |-> d, hours |-> h]

datesMatch(dateA, dateB) ==
  IF ~dateA.defined \/ ~dateB.defined THEN FALSE
  ELSE /\ dateA.year = dateB.year
       /\ dateA.month = dateB.month
       /\ dateA.date = dateB.date

\* `undefined` of the optional category; "" is the empty sequence
NoCategory == [defined |-> FALSE, text |-> <<>>]
CategoryOf(text) == [defined |-> TRUE, text |-> text]

\* kalshi.category && poly.category && a.toLowerCase() === b.toLowerCase()
categoriesMatch(catA, catB) ==
  /\ catA.defined /\ catA.text # <<>>
  /\ catB.defined /\ catB.text # <<>>
  /\ toLowerCase(catA.text) = toLowerCase(catB.text)

\* ---- matchMarkets ---------------------------------------------------------
MarketOf(id, title, endDate, category) ==
  [id |-> id, title |-> title, endDate |-> endDate, category |-> category]

\* titleSimilarity * 0.5 + keywordScore * 0.2 + dateMatch + categoryMatch,
\* in units of 1 / (10 * den of the similarity * den of the keyword score)
Combine(titleSimilarity, keywordScore, dateTenths, categoryTenths) ==
  Frac(5 * titleSimilarity.num * keywordScore.den
         + 2 * keywordScore.num * titleSimilarity.den
         + (dateTenths + categoryTenths) * titleSimilarity.den * keywordScore.den,
       10 * titleSimilarity.den * keywordScore.den)

\* variant: a matching date weighs 0.4
Confidence_HeavyDate(kalshi, poly) ==
  Combine(calculateSimilarity(kalshi.title, poly.title),
          keywordOverlap(kalshi.title, poly.title),
          IF datesMatch(kalshi.endDate, poly.endDate) THEN 4 ELSE 0,
          IF categoriesMatch(kalshi.category, poly.category) THEN 1 ELSE 0)

Confidence(kalshi, poly) ==
  Combine(calculateSimilarity(kalshi.title, poly.title),
          keywordOverlap(kalshi.title, poly.title),
          IF datesMatch(kalshi.endDate, poly.endDate) THEN 2 ELSE 0,
          IF categoriesMatch(kalshi.category, poly.category) THEN 1 ELSE 0)

Reason(kalshi, poly) ==
  LET titleSimilarity == calculateSimilarity(kalshi.title, poly.title)
      keywordScore == keywordOverlap(kalshi.title, poly.title)
  IN  IF FracGT(titleSimilarity, Frac(9, 10)) THEN "Exact title match"
      ELSE IF FracGT(titleSimilarity, Frac(7, 10)) THEN "Similar titles"
      ELSE IF FracGT(keywordScore, Frac(7, 10)) THEN "Keyword overlap"
      ELSE "Multiple signals"

\* `null` of bestMatch
NoMatch == [found |-> FALSE]

\* variant: a candidate of equal confidence replaces the best so far
RECURSIVE ScanPolymarket_LastOnTie(_, _, _, _, _)
ScanPolymarket_LastOnTie(kalshi, polys, j, matchedPolymarket, bestMatch) ==
  IF j > Len(polys) THEN bestMatch
  ELSE LET poly == polys[j]
           confidence == Confidence(kalshi, poly)
       IN  IF poly.id \in matchedPolymarket
             THEN ScanPolymarket_LastOnTie(kalshi, polys, j + 1, matchedPolymarket,
                                           bestMatch)
           ELSE IF /\ FracGT(confidence, Frac(6, 10))
                   /\ (~bestMatch.found \/ ~FracGT(bestMatch.confidence, confidence))
             THEN ScanPolymarket_LastOnTie(kalshi, polys, j + 1, matchedPolymarket,
                    [found |-> TRUE, kalshiMarket |-> kalshi, polymarketMarket |-> poly,
                     confidence |-> confidence, reason |-> Reason(kalshi, poly)])
           ELSE ScanPolymarket_LastOnTie(kalshi, polys, j + 1, matchedPolymarket,
                                         bestMatch)

\* the inner loop over polymarketMarkets from index j on
RECURSIVE ScanPolymarket(_, _, _, _, _)
ScanPolymarket(kalshi, polys, j, matchedPolymarket, bestMatch) ==
  IF j > Len(polys) THEN bestMatch
  ELSE LET poly == polys[j]
           confidence == Confidence(kalshi, poly)
       IN  IF poly.id \in matchedPolymarket
             THEN ScanPolymarket(kalshi, polys, j + 1, matchedPolymarket, bestMatch)
           ELSE IF /\ FracGT(confidence, Frac(6, 10))
                   /\ (~bestMatch.found \/ FracGT(confidence, bestMatch.confidence))
             THEN ScanPolymarket(kalshi, polys, j + 1, matchedPolymarket,
                    [found |-> TRUE, kalshiMarket |-> kalshi, polymarketMarket |-> poly,
                     confidence |-> confidence, reason |-> Reason(kalshi, poly)])
           ELSE ScanPolymarket(kalshi, polys, j + 1, matchedPolymarket, bestMatch)

\* the outer loop over kalshiMarkets from index i on
RECURSIVE ScanKalshi(_, _, _, _, _)
ScanKalshi(kalshis, polys, i, matchedPolymarket, acc) ==
  IF i > Len(kalshis) THEN acc
  ELSE LET bestMatch == ScanPolymarket(kalshis[i], polys, 1, matchedPolymarket, NoMatch)
       IN  IF bestMatch.found
             THEN ScanKalshi(kalshis, polys, i + 1,
                    matchedPolymarket \cup {bestMatch.polymarketMarket.id},
                    Append(acc, [kalshi |-> bestMatch.kalshiMarket,
                                 polymarket |-> bestMatch.polymarketMarket,
                                 matchConfidence |-> bestMatch.confidence,
                                 matchReason |-> bestMatch.reason]))
             ELSE ScanKalshi(kalshis, polys, i + 1, matchedPolymarket, acc)

\* pairs.sort((a, b) => b.matchConfidence - a.matchConfidence): stable,
\* descending
RECURSIVE InsertPair(_, _)
InsertPair(sorted, newPair) ==
  IF sorted = <<>> THEN <<newPair>>
  ELSE IF FracGT(newPair.matchConfidence, sorted[Len(sorted)].matchConfidence)
         THEN Append(InsertPair(SubSeq(sorted, 1, Len(sorted) - 1), newPair),
                     sorted[Len(sorted)])
         ELSE Append(sorted, newPair)

RECURSIVE SortPairs(_)
SortPairs(ps) ==
  IF ps = <<>> THEN <<>>
  ELSE InsertPair(SortPairs(SubSeq(ps, 1, Len(ps) - 1)), ps[Len(ps)])

matchMarkets(kalshis, polys) ==
  SortPairs(ScanKalshi(kalshis, polys, 1, {}, <<>>))

\* the harness calls matchMarkets on its two lists
Match ==
  /\ matchPc = "ready"
  /\ pairs' = matchMarkets(kalshiMarkets, polymarketMarkets)
  /\ matchPc' = "done"
  /\ UNCHANGED <<kalshiMarkets, polymarketMarkets, matchFrame>>

\* ---- inputs ---------------------------------------------------------------
\* the titles of the model: "Fed cut", "FED  cut!", "Fed cuts", "Fed hike",
\* "Will it be?", "" and "?!"
Titles ==
  [fedCut |-> <<"F", "e", "d", " ", "c", "u", "t">>,
   fedCutLoud |-> <<"F", "E", "D", " ", " ", "c", "u", "t", "!">>,
   fedCuts |-> <<"F", "e", "d", " ", "c", "u", "t", "s">>,
   fedHike |-> <<"F", "e", "d", " ", "h", "i", "k", "e">>,
   willItBe |-> <<"W", "i", "l", "l", " ", "i", "t", " ", "b", "e", "?">>,
   empty |-> <<>>,
   marks |-> <<"?", "!">>]

\* the categories of the model: "Politics", "politics" and ""
Categories ==
  [politics |-> CategoryOf(<<"P", "o", "l", "i", "t", "i", "c", "s">>),
   politicsLower |-> CategoryOf(<<"p", "o", "l", "i", "t", "i", "c", "s">>),
   empty |-> CategoryOf(<<>>)]

\* 15 January 2025 in the morning and in the evening, and the day after
Days ==
  [morning |-> DateOf(2025, 0, 15, 9),
   evening |-> DateOf(2025, 0, 15, 21),
   next |-> DateOf(2025, 0, 16, 9)]

\* the sequences over a set of length 0..n
SeqsUpTo(S, n) == UNION {[1..k -> S] : k \in 0..n}

\* the markets SpecMatch builds its lists from (two ids per platform)
MatchPool ==
  {MarketOf(id, title, endDate, Categories.politics) :
     id \in {"m1", "m2"},
     title \in {Titles.fedCut, Titles.fedCuts, Titles.willItBe},
     endDate \in {NoDate, Days.morning}}

\* the markets SpecScore scores one against one
ScorePool ==
  {MarketOf("m1", title, endDate, category) :
     title \in {Titles.fedCut, Titles.fedCutLoud, Titles.fedHike, Titles.willItBe,
                Titles.empty, Titles.marks},
     endDate \in {NoDate, Days.morning, Days.evening, Days.next},
     category \in {NoCategory, Categories.empty, Categories.politics, Categories.politicsLower}}

(***************************************************************************)
(* Part 6: the arbitrage calculators (src/src/arbitrage/matcher.ts)        *)
(*                                                                         *)
(* Prices, fees and profits are exact multiples of 0.001.                  *)
(***************************************************************************)
\* what SpecArb leaves alone
arbFrame == <<fetchVars, storeVars, cacheVars, pageVars, matchVars, tailVars>>

\* the 1 of `1 - cost - fees`, in units of 0.001
One == 1000
\* the 0.001 of `profit <= 0.001` and `spread <= 0.001`
ProfitFloor == 1
\* `undefined` of the optional yesAsk / noAsk
NullPrice == 0 - 1

\* a ?? b
Nullish(a, b) == IF a = NullPrice THEN b ELSE a

PricedMarket(platform, yesPrice, noPrice, yesAsk, noAsk) ==
  [present |-> TRUE, platform |-> platform, yesPrice |-> yesPrice,
   noPrice |-> noPrice, yesAsk |-> yesAsk, noAsk |-> noAsk]

\* a side of the pair that is missing
MissingMarket(platform) ==
  [present |-> FALSE, platform |-> platform, yesPrice |-> 0, noPrice |-> 0,
   yesAsk |-> NullPrice, noAsk |-> NullPrice]

FeesOf(kalshiTaker, polymarketTaker) ==
  [kalshi |-> [takerFee |-> kalshiTaker, makerFee |-> 0],
   polymarket |-> [takerFee |-> polymarketTaker, makerFee |-> 0]]

DEFAULT_FEES == FeesOf(70, 20)

\* `null`
NoOpportunity == [found |-> FALSE]

\* variant: strategy 1 needs a strictly larger profit
calculateCrossMarketArbitrage_StrictTie(p, f) ==
  LET kalshi == p.kalshi
      polymarket == p.polymarket
      strategy1Cost == Nullish(kalshi.yesAsk, kalshi.yesPrice)
                         + Nullish(polymarket.noPrice, One - polymarket.yesPrice)
      strategy1Fees == f.kalshi.takerFee + f.polymarket.takerFee
      strategy1Profit == One - strategy1Cost - strategy1Fees
      strategy2Cost == Nullish(kalshi.noAsk, kalshi.noPrice) + polymarket.yesPrice
      strategy2Fees == f.kalshi.takerFee + f.polymarket.takerFee
      strategy2Profit == One - strategy2Cost - strategy2Fees
      bestStrategy == IF strategy1Profit > 0 /\ strategy1Profit > strategy2Profit THEN 1
                      ELSE IF strategy2Profit > 0 THEN 2
                      ELSE 0
      profit == IF bestStrategy = 1 THEN strategy1Profit
                ELSE IF bestStrategy = 2 THEN strategy2Profit
                ELSE 0
  IN  IF ~kalshi.present \/ ~polymarket.present THEN NoOpportunity
      ELSE IF bestStrategy = 0 \/ profit <= ProfitFloor THEN NoOpportunity
      ELSE [found |-> TRUE,
            type |-> "cross-market",
            events |-> [kalshi |-> kalshi, polymarket |-> polymarket],
            trade |-> IF bestStrategy = 1
                        THEN [buy |-> [platform |-> "kalshi", side |-> "yes",
                                       price |-> Nullish(kalshi.yesAsk, kalshi.yesPrice)],
                              sell |-> [platform |-> "polymarket", side |-> "no",
                                        price |-> Nullish(polymarket.noPrice,
                                                          One - polymarket.yesPrice)]]
                        ELSE [buy |-> [platform |-> "kalshi", side |-> "no",
                                       price |-> Nullish(kalshi.noAsk, kalshi.noPrice)],
                              sell |-> [platform |-> "polymarket", side |-> "yes",
                                        price |-> polymarket.yesPrice]],
            profitMargin |-> profit * 100,
            confidence |-> p.matchConfidence]

calculateCrossMarketArbitrage(p, f) ==
  LET kalshi == p.kalshi
      polymarket == p.polymarket
      strategy1Cost == Nullish(kalshi.yesAsk, kalshi.yesPrice)
                         + Nullish(polymarket.noPrice, One - polymarket.yesPrice)
      strategy1Fees == f.kalshi.takerFee + f.polymarket.takerFee
      strategy1Profit == One - strategy1Cost - strategy1Fees
      strategy2Cost == Nullish(kalshi.noAsk, kalshi.noPrice) + polymarket.yesPrice
      strategy2Fees == f.kalshi.takerFee + f.polymarket.takerFee
      strategy2Profit == One - strategy2Cost - strategy2Fees
      bestStrategy == IF strategy1Profit > 0 /\ strategy1Profit >= strategy2Profit THEN 1
                      ELSE IF strategy2Profit > 0 THEN 2
                      ELSE 0
      profit == IF bestStrategy = 1 THEN strategy1Profit
                ELSE IF bestStrategy = 2 THEN strategy2Profit
                ELSE 0
  IN  IF ~kalshi.present \/ ~polymarket.present THEN NoOpportunity
      ELSE IF bestStrategy = 0 \/ profit <= ProfitFloor THEN NoOpportunity
      ELSE [found |-> TRUE,
            type |-> "cross-market",
            events |-> [kalshi |-> kalshi, polymarket |-> polymarket],
            trade |-> IF bestStrategy = 1
                        THEN [buy |-> [platform |-> "kalshi", side |-> "yes",
                                       price |-> Nullish(kalshi.yesAsk, kalshi.yesPrice)],
                              sell |-> [platform |-> "polymarket", side |-> "no",
                                        price |-> Nullish(polymarket.noPrice,
                                                          One - polymarket.yesPrice)]]
                        ELSE [buy |-> [platform |-> "kalshi", side |-> "no",
                                       price |-> Nullish(kalshi.noAsk, kalshi.noPrice)],
                              sell |-> [platform |-> "polymarket", side |-> "yes",
                                        price |-> polymarket.yesPrice]],
            profitMargin |-> profit * 100,
            confidence |-> p.matchConfidence]

\* variant: the taker fee is charged once
calculateIntraMarketArbitrage_SingleFee(market, f) ==
  LET platformFees == IF market.platform = "kalshi" THEN f.kalshi ELSE f.polymarket
      yesCost == Nullish(market.yesAsk, market.yesPrice)
      noCost == Nullish(market.noAsk, market.noPrice)
      totalCost == yesCost + noCost
      totalFees == platformFees.takerFee
      spread == One - totalCost - totalFees
  IN  IF spread <= ProfitFloor THEN NoOpportunity
      ELSE [found |-> TRUE, type |-> "intra-market", market |-> market,
            yesPrice |-> yesCost,
            noPrice |-> noCost, spread |-> spread, profitMargin |-> spread * 100]

calculateIntraMarketArbitrage(market, f) ==
  LET platformFees == IF market.platform = "kalshi" THEN f.kalshi ELSE f.polymarket
      yesCost == Nullish(market.yesAsk, market.yesPrice)
      noCost == Nullish(market.noAsk, market.noPrice)
      totalCost == yesCost + noCost
      totalFees == platformFees.takerFee * 2
      spread == One - totalCost - totalFees
  IN  IF spread <= ProfitFloor THEN NoOpportunity
      ELSE [found |-> TRUE, type |-> "intra-market", market |-> market,
            yesPrice |-> yesCost,
            noPrice |-> noCost, spread |-> spread, profitMargin |-> spread * 100]

\* the detector calls calculateCrossMarketArbitrage(pair, fees)
CalcCross ==
  /\ arbResult' = [fn |-> "cross", platform |-> "both",
                   value |-> calculateCrossMarketArbitrage(pair, fees)]
  /\ UNCHANGED <<pair, fees, arbFrame>>

\* the detector calls calculateIntraMarketArbitrage(market, fees) on a market
CalcIntra ==
  /\ \E market \in {pair.kalshi, pair.polymarket} :
       /\ market.present
       /\ arbResult' = [fn |-> "intra", platform |-> market.platform,
                        value |-> calculateIntraMarketArbitrage(market, fees)]
  /\ UNCHANGED <<pair, fees, arbFrame>>

\* ---- inputs ---------------------------------------------------------------
\* yesPrice / noPrice values: 0.45, 0.454, 0.455, 0.5
PriceValues == {450, 454, 455, 500}
\* yesAsk / noAsk values: undefined, 0, 0.40, 0.46
AskValues == {NullPrice, 0, 400, 460}

PricedMarkets(platform) ==
  {PricedMarket(platform, yp, np, ya, na) :
     yp \in PriceValues, np \in PriceValues, ya \in AskValues, na \in AskValues}

\* the default fees, no fees, and 0.045 on both platforms
FeeStructures == {DEFAULT_FEES, FeesOf(0, 0), FeesOf(45, 45)}

\* no calculator call yet
NoCalc == [fn |-> "none", platform |-> "both", value |-> NoOpportunity]

(***************************************************************************)
(* Part 7: ArbitrageDetector (src/unnamed/part_001)                        *)
(*                                                                         *)
(* minProfitMargin is in the unit of profitMargin (0.001 of a percent),    *)
(* minConfidence is a fraction like the confidences of the matcher.        *)
(***************************************************************************)
\* what SpecDetect leaves alone
detectFrame == <<fetchVars, storeVars, cacheVars, pageVars, pairs, matchPc, arbVars,
                 scanVars>>

\* x >= y
FracGE(x, y) == x.num * y.den >= y.num * x.den

\* a Market with the fields the matcher and the calculators read
Market(id, platform, title, endDate, category, yesPrice, noPrice, yesAsk, noAsk) ==
  [id |-> id, platform |-> platform, present |-> TRUE, title |-> title,
   endDate |-> endDate, category |-> category, yesPrice |-> yesPrice,
   noPrice |-> noPrice, yesAsk |-> yesAsk, noAsk |-> noAsk]

ConfigOf(minProfitMargin, minConfidence, feeStructure) ==
  [minProfitMargin |-> minProfitMargin, minConfidence |-> minConfidence,
   fees |-> feeStructure]

\* minProfitMargin 0.5, minConfidence 0.6
DEFAULT_CONFIG == ConfigOf(500, Frac(6, 10), DEFAULT_FEES)

\* { ...base, ...partial }
Merge(base, partial) ==
  ConfigOf(IF "minProfitMargin" \in DOMAIN partial THEN partial.minProfitMargin
                                                   ELSE base.minProfitMargin,
           IF "minConfidence" \in DOMAIN partial THEN partial.minConfidence
                                                 ELSE base.minConfidence,
           IF "fees" \in DOMAIN partial THEN partial.fees ELSE base.fees)

\* [...opportunities].sort((a, b) => b.profitMargin - a.profitMargin): stable,
\* descending
RECURSIVE InsertOpportunity(_, _)
InsertOpportunity(sorted, opp) ==
  IF sorted = <<>> THEN <<opp>>
  ELSE IF opp.profitMargin > sorted[Len(sorted)].profitMargin
         THEN Append(InsertOpportunity(SubSeq(sorted, 1, Len(sorted) - 1), opp),
                     sorted[Len(sorted)])
         ELSE Append(sorted, opp)

RECURSIVE sortByProfitMargin(_)
sortByProfitMargin(opportunities) ==
  IF opportunities = <<>> THEN <<>>
  ELSE InsertOpportunity(
         sortByProfitMargin(SubSeq(opportunities, 1, Len(opportunities) - 1)),
         opportunities[Len(opportunities)])

\* .filter((opp) => opp !== null)
IsOpportunity(opp) == opp.found

\* the minConfidence filter with the threshold of the call before
crossMarketOf_StaleThreshold(kalshis, polys) ==
  LET minConfidence == IF detectCall.made THEN detectCall.config.minConfidence
                                          ELSE detectorConfig.minConfidence
      Confident(p) == FracGE(p.matchConfidence, minConfidence)
      Profitable(opp) == opp.profitMargin >= detectorConfig.minProfitMargin
      kept == SelectSeq(matchMarkets(kalshis, polys), Confident)
      mapped == [i \in 1..Len(kept) |->
                   calculateCrossMarketArbitrage(kept[i], detectorConfig.fees)]
  IN  SelectSeq(SelectSeq(mapped, IsOpportunity), Profitable)

\* const crossMarket = pairs.filter(...).map(...).filter(...).filter(...)
crossMarketOf(kalshis, polys) ==
  LET Confident(p) == FracGE(p.matchConfidence, detectorConfig.minConfidence)
      Profitable(opp) == opp.profitMargin >= detectorConfig.minProfitMargin
      kept == SelectSeq(matchMarkets(kalshis, polys), Confident)
      mapped == [i \in 1..Len(kept) |->
                   calculateCrossMarketArbitrage(kept[i], detectorConfig.fees)]
  IN  SelectSeq(SelectSeq(mapped, IsOpportunity), Profitable)

\* variant: the margin must exceed the threshold
intraOf_StrictThreshold(marketList) ==
  LET Profitable(opp) == opp.profitMargin > detectorConfig.minProfitMargin
      mapped == [i \in 1..Len(marketList) |->
                   calculateIntraMarketArbitrage(marketList[i], detectorConfig.fees)]
  IN  SelectSeq(SelectSeq(mapped, IsOpportunity), Profitable)

\* const kalshiIntra = kalshiMarkets.map(...).filter(...).filter(...), and the
\* same for polymarketIntra
intraOf(marketList) ==
  LET Profitable(opp) == opp.profitMargin >= detectorConfig.minProfitMargin
      mapped == [i \in 1..Len(marketList) |->
                   calculateIntraMarketArbitrage(marketList[i], detectorConfig.fees)]
  IN  SelectSeq(SelectSeq(mapped, IsOpportunity), Profitable)

\* variant: the cross-market head wins a tie
bestOf_CrossOnTie(sortedCross, intraMarket) ==
  IF Len(sortedCross) > 0 /\ Len(intraMarket) > 0
    THEN IF sortedCross[1].profitMargin >= intraMarket[1].profitMargin
           THEN sortedCross[1]
           ELSE intraMarket[1]
  ELSE IF Len(sortedCross) > 0 THEN sortedCross[1]
  ELSE IF Len(intraMarket) > 0 THEN intraMarket[1]
  ELSE NoOpportunity

\* let bestOpportunity = null; if (...) ... else if (...) ... else if (...) ...
bestOf(sortedCross, intraMarket) ==
  IF Len(sortedCross) > 0 /\ Len(intraMarket) > 0
    THEN IF sortedCross[1].profitMargin > intraMarket[1].profitMargin
           THEN sortedCross[1]
           ELSE intraMarket[1]
  ELSE IF Len(sortedCross) > 0 THEN sortedCross[1]
  ELSE IF Len(intraMarket) > 0 THEN intraMarket[1]
  ELSE NoOpportunity

\* detect(kalshiMarkets, polymarketMarkets), detectedAt aside; the two sorted
\* lists are computed once, as the constants sortedCross and intraMarket of
\* the code are
detect(kalshis, polys) ==
  LET DetectionResult(sortedCross, intraMarket) ==
        [returned |-> TRUE,
         crossMarket |-> sortedCross,
         intraMarket |-> intraMarket,
         totalOpportunities |-> Len(sortedCross) + Len(intraMarket),
         bestOpportunity |-> bestOf(sortedCross, intraMarket)]
  IN  CHOOSE result \in
        {DetectionResult(sortedCross, intraMarket) :
           sortedCross \in {sortByProfitMargin(crossMarketOf(kalshis, polys))},
           intraMarket \in {sortByProfitMargin(intraOf(kalshis) \o intraOf(polys))}} :
        TRUE

\* detect not called yet
NoResult == [returned |-> FALSE]
NoCall == [made |-> FALSE]

\* detector.detect is called on the Polymarket list and on the Kalshi markets
\* published so far (a prefix of the list)
Detect ==
  /\ \E n \in 0..Len(kalshiMarkets) :
       LET kalshis == SubSeq(kalshiMarkets, 1, n)
       IN  /\ detectResult' = detect(kalshis, polymarketMarkets)
           /\ detectCall' = [made |-> TRUE, kalshiMarkets |-> kalshis,
                             polymarketMarkets |-> polymarketMarkets,
                             config |-> detectorConfig]
  /\ UNCHANGED <<earlierCall, detectorConfig, kalshiMarkets, polymarketMarkets,
                 detectFrame>>

\* the same call, the history keeping the call before it or an earlier one
DetectAgain ==
  /\ \E n \in 0..Len(kalshiMarkets) :
       LET kalshis == SubSeq(kalshiMarkets, 1, n)
       IN  /\ detectResult' = detect(kalshis, polymarketMarkets)
           /\ detectCall' = [made |-> TRUE, kalshiMarkets |-> kalshis,
                             polymarketMarkets |-> polymarketMarkets,
                             config |-> detectorConfig]
  /\ earlierCall' \in
       {earlierCall}
         \cup (IF detectCall.made
                 THEN {[made |-> TRUE, kalshiMarkets |-> detectCall.kalshiMarkets,
                        polymarketMarkets |-> detectCall.polymarketMarkets,
                        config |-> detectCall.config, result |-> detectResult]}
                 ELSE {})
  /\ UNCHANGED <<detectorConfig, kalshiMarkets, polymarketMarkets, detectFrame>>

\* the partial configurations updateConfig is called with
PartialConfigs ==
  {[minProfitMargin |-> 2000],
   [minProfitMargin |-> 500],
   [minConfidence |-> Frac(9, 10)],
   [minConfidence |-> Frac(6, 10)],
   [fees |-> FeesOf(0, 0)],
   [fees |-> DEFAULT_FEES],
   [minProfitMargin |-> 2000, minConfidence |-> Frac(9, 10)]}

\* updateConfig(config)
DetectorUpdateConfig ==
  /\ \E partial \in PartialConfigs :
       detectorConfig' = Merge(detectorConfig, partial)
  /\ UNCHANGED <<detectResult, detectCall, earlierCall, kalshiMarkets,
                 polymarketMarkets, detectFrame>>

\* ---- inputs ---------------------------------------------------------------
\* Kalshi: "Fed cut" on 15 January at 0.45 / 0.50, and "Fed cut" without a
\* date at 0.455 / 0.45 with a YES ask of 0.405
KalshiPool ==
  {Market("k1", "kalshi", Titles.fedCut, Days.morning, Categories.politics,
          450, 500, NullPrice, NullPrice),
   Market("k2", "kalshi", Titles.fedCut, NoDate, Categories.politics,
          455, 450, 405, NullPrice)}

\* Polymarket: "Fed cut" on 15 January at 0.45 / 0.45, and "Fed cuts" on
\* 15 January at 0.50 / 0.46
PolymarketPool ==
  {Market("p1", "polymarket", Titles.fedCut, Days.evening, Categories.politicsLower,
          450, 450, NullPrice, NullPrice),
   Market("p2", "polymarket", Titles.fedCuts, Days.morning, Categories.politics,
          500, 460, NullPrice, NullPrice)}

(***************************************************************************)
(* Part 8: background persistence of a detection result                    *)
(* (src/src/stores/opportunities.ts, scan history of src/unnamed/part_006) *)
(***************************************************************************)
\* what SpecScan leaves alone, the markets store apart
scanFrame == <<fetchVars, cacheVars, pageVars, matchVars, arbVars, detectVars>>

\* a persistOpportunitiesToDb invocation suspended at its first await, with
\* the number of cross-market opportunities of the result and the number it
\* has upserted
NewScanTask(n) == [pc |-> "dbcheck", scanId |-> 0, opportunities |-> n, upserted |-> 0]

\* the invocation ended: it returned, or the catch block logged the error
EndScanTask(i) == [scanTasks EXCEPT ![i].pc = "ended"]

\* detectOpportunities(): detect, publish, count, and start the persistence
\* without awaiting it; the persistence reads the length of result.crossMarket
\* only, so the result is represented by that length
DetectOpportunities ==
  /\ scanCount < MaxScans
  /\ scanCount' = scanCount + 1
  /\ \E n \in 0..MaxOpps : scanTasks' = Append(scanTasks, NewScanTask(n))
  /\ UNCHANGED <<scanHistory, lastScanId, storeVars, scanFrame>>

\* isDatabaseAvailable() resolves: return if not, else call startScan
ScanDbCheck ==
  /\ \E i \in 1..Len(scanTasks) :
       /\ scanTasks[i].pc = "dbcheck"
       /\ scanTasks' = IF dbUp THEN [scanTasks EXCEPT ![i].pc = "startScan"]
                               ELSE EndScanTask(i)
  /\ UNCHANGED <<scanHistory, lastScanId, scanCount, storeVars, scanFrame>>

\* startScan resolves with the id of the new row (status running), the id is
\* published and getDbIds("kalshi") is called; or startScan throws
ScanStart ==
  /\ \E i \in 1..Len(scanTasks) :
       /\ scanTasks[i].pc = "startScan"
       /\ \/ /\ dbUp
             /\ scanHistory' = Append(scanHistory, "running")
             /\ lastScanId' = Len(scanHistory) + 1
             /\ scanTasks' = [scanTasks EXCEPT ![i].pc = "kalshiIds",
                                               ![i].scanId = Len(scanHistory) + 1]
          \/ /\ scanTasks' = EndScanTask(i)
             /\ UNCHANGED <<scanHistory, lastScanId>>
  /\ UNCHANGED <<scanCount, storeVars, scanFrame>>

\* getDbIds("kalshi", ...) resolves and getDbIds("polymarket", ...) is
\* called; or it throws
ScanKalshiIds ==
  /\ \E i \in 1..Len(scanTasks) :
       /\ scanTasks[i].pc = "kalshiIds"
       /\ \/ /\ dbUp
             /\ scanTasks' = [scanTasks EXCEPT ![i].pc = "polyIds"]
          \/ scanTasks' = EndScanTask(i)
  /\ UNCHANGED <<scanHistory, lastScanId, scanCount, storeVars, scanFrame>>

\* getDbIds("polymarket", ...) resolves: the loop upserts its first
\* opportunity, or completeScan is called if there is none; or it throws
ScanPolyIds ==
  /\ \E i \in 1..Len(scanTasks) :
       /\ scanTasks[i].pc = "polyIds"
       /\ \/ /\ dbUp
             /\ scanTasks' = [scanTasks EXCEPT ![i].pc =
                                IF scanTasks[i].opportunities > 0 THEN "upsert"
                                                              ELSE "complete"]
          \/ scanTasks' = EndScanTask(i)
  /\ UNCHANGED <<scanHistory, lastScanId, scanCount, storeVars, scanFrame>>

\* upsertCrossMarketOpportunity resolves: the next one, or completeScan; or
\* it throws
ScanUpsert ==
  /\ \E i \in 1..Len(scanTasks) :
       /\ scanTasks[i].pc = "upsert"
       /\ \/ /\ dbUp
             /\ scanTasks' = [scanTasks EXCEPT ![i].upserted = @ + 1,
                                ![i].pc = IF scanTasks[i].upserted + 1
                                               < scanTasks[i].opportunities
                                            THEN "upsert" ELSE "complete"]
          \/ scanTasks' = EndScanTask(i)
  /\ UNCHANGED <<scanHistory, lastScanId, scanCount, storeVars, scanFrame>>

\* completeScan resolves: the row is marked completed; or it throws
ScanComplete ==
  /\ \E i \in 1..Len(scanTasks) :
       /\ scanTasks[i].pc = "complete"
       /\ scanTasks' = EndScanTask(i)
       /\ \/ /\ dbUp
             /\ scanHistory' = [scanHistory EXCEPT ![scanTasks[i].scanId] = "completed"]
          \/ UNCHANGED scanHistory
  /\ UNCHANGED <<lastScanId, scanCount, storeVars, scanFrame>>

(***************************************************************************)
(* Specifications                                                          *)
(***************************************************************************)
\* no getAll...Markets call of the pagination harness is in progress
PagesIdle ==
  /\ pagePc = "idle"
  /\ pagePlatform = "kalshi"
  /\ allMarkets = <<>>
  /\ offset = 0
  /\ hasMore = TRUE
  /\ requests = <<>>
  /\ spacing = <<>>
  /\ served = <<>>

\* the CacheManager singleton of the application, nothing called yet
CacheIdle ==
  /\ config = [marketsTtlMs |-> marketsTtlMs]
  /\ cacheOp = NoOp
  /\ lastSet = [p \in Platforms |-> NeverSet]

\* matchMarkets not called, nothing to match
MatchIdle ==
  /\ kalshiMarkets = <<>>
  /\ polymarketMarkets = <<>>
  /\ pairs = <<>>
  /\ matchPc = "ready"

\* no pair to evaluate
ArbIdle ==
  /\ pair = [kalshi |-> MissingMarket("kalshi"), polymarket |-> MissingMarket("polymarket"),
             matchConfidence |-> Frac(1, 1)]
  /\ fees = DEFAULT_FEES
  /\ arbResult = NoCalc

\* the detector singleton as constructed, detect not called
DetectIdle ==
  /\ detectorConfig = DEFAULT_CONFIG
  /\ detectResult = NoResult
  /\ detectCall = NoCall
  /\ earlierCall = NoCall

\* detectOpportunities not called, no scan recorded
ScanIdle ==
  /\ scanTasks = <<>>
  /\ scanHistory = <<>>
  /\ lastScanId = 0
  /\ scanCount = 0

TailIdle ==
  /\ DetectIdle
  /\ ScanIdle

ExtraIdle ==
  /\ CacheIdle
  /\ PagesIdle
  /\ listing = 1
  /\ MatchIdle
  /\ ArbIdle
  /\ TailIdle

\* no DomeClient.fetch call of the harness is in progress
FetchIdle ==
  /\ fpc = "idle"
  /\ attempt = 0
  /\ lastError = Undefined
  /\ timerArmed = FALSE
  /\ aborted = FALSE
  /\ fresult = [kind |-> "none", value |-> Undefined]
  /\ nRequests = 0
  /\ nWaits = 0
  /\ outcomes = <<>>
  /\ observed = Undefined
  /\ nCalls = 0

\* the module-level state of the store after import
InitStore ==
  /\ markets = [p \in Platforms |-> NoMarkets]
  /\ connected = [p \in Platforms |-> FALSE]
  /\ loading = FALSE
  /\ error = NullMessage
  /\ lastUpdated = NullDate
  /\ domeConnected = FALSE
  /\ dbConnected = FALSE
  /\ dataSource = "api"
  /\ refreshInterval = "null"
  /\ activeTimers = 0
  /\ runs = <<>>
  /\ tasks = {}
  /\ marketsCache = [p \in Platforms |-> NoEntry]
  /\ dbRows = [p \in Platforms |-> 0]
  /\ now = 0
  /\ gen = 0
  /\ lastCall = "none"
  /\ nRefreshes = 0
  /\ lastTimerOp = "none"
  /\ report = NoReport

InitFetch ==
  /\ retries \in 0..MaxRetries
  /\ FetchIdle
  /\ InitStore
  /\ dbUp = TRUE
  /\ ExtraIdle

NextFetch ==
  \/ CallFetch
  \/ FetchResponseOk
  \/ JsonSettles
  \/ FetchResponseNotOk
  \/ FetchRejects
  \/ TimeoutFires
  \/ BackoffDone

SpecFetch == InitFetch /\ [][NextFetch]_vars

\* The timers of the runtime fire and settled promises resume their awaiters;
\* every attempt gets an outcome from the upstream or from its own timeout.
FairSpecFetch ==
  /\ SpecFetch
  /\ WF_vars(BackoffDone)
  /\ WF_vars(TimeoutFires)
  /\ WF_vars(FetchRejects)
  /\ WF_vars(JsonSettles)

Init ==
  /\ retries = DEFAULT_RETRY_ATTEMPTS
  /\ FetchIdle
  /\ InitStore
  /\ dbUp \in BOOLEAN
  /\ ExtraIdle

Next ==
  \/ ManualRefresh
  \/ TimerTick
  \/ StartAutoRefresh
  \/ StopAutoRefresh
  \/ PageHasMore
  \/ PageLast
  \/ PageThrows
  \/ LoadDbCheck
  \/ LoadDbRows
  \/ SleepDone
  \/ PersistDbCheck
  \/ PersistUpsert
  \/ PersistSnapshots
  \/ DbToggle
  \/ Tick

Spec == Init /\ [][Next]_vars

\* Refreshes asked for by the user, without the timer. Every page request
\* is answered or fails, every database call of loadMarketsFromDb returns or
\* throws, the sleep between the platforms ends; a listing has at most
\* MaxPages pages.
NextRefresh ==
  \/ ManualRefresh
  \/ PageHasMore
  \/ PageLast
  \/ PageThrows
  \/ LoadDbCheck
  \/ LoadDbRows
  \/ SleepDone
  \/ PersistDbCheck
  \/ PersistUpsert
  \/ PersistSnapshots
  \/ DbToggle
  \/ Tick

FairSpecRefresh ==
  /\ Init
  /\ [][NextRefresh]_vars
  /\ WF_vars(PageHasMore \/ PageLast \/ PageThrows)
  /\ WF_vars(LoadDbCheck)
  /\ WF_vars(LoadDbRows)
  /\ WF_vars(SleepDone)

\* a CacheManager constructed with some marketsTtlMs
InitCache ==
  /\ retries = DEFAULT_RETRY_ATTEMPTS
  /\ FetchIdle
  /\ InitStore
  /\ dbUp = TRUE
  /\ config \in [marketsTtlMs : CacheTtls]
  /\ cacheOp = NoOp
  /\ lastSet = [p \in Platforms |-> NeverSet]
  /\ PagesIdle
  /\ listing = 1
  /\ MatchIdle
  /\ ArbIdle
  /\ TailIdle

NextCache ==
  \/ CacheGet
  \/ CacheSet
  \/ CacheFreshness
  \/ CacheInvalidate
  \/ UpdateConfig
  \/ AdvanceClock

SpecCache == InitCache /\ [][NextCache]_vars

\* an upstream listing of 1..MaxRequests pages, or one that never ends
InitPages ==
  /\ retries = DEFAULT_RETRY_ATTEMPTS
  /\ FetchIdle
  /\ InitStore
  /\ dbUp = TRUE
  /\ CacheIdle
  /\ PagesIdle
  /\ listing \in 0..MaxRequests
  /\ MatchIdle
  /\ ArbIdle
  /\ TailIdle

NextPages ==
  \/ CallGetAll
  \/ PageResponse
  \/ PageRequestFails

SpecPages == InitPages /\ [][NextPages]_vars

\* every page request is answered (or fails); nothing forces it to fail
FairSpecPages ==
  /\ SpecPages
  /\ WF_vars(CallGetAll)
  /\ WF_vars(PageResponse)

\* matchMarkets on two lists of up to MaxMarkets markets
InitMatch ==
  /\ retries = DEFAULT_RETRY_ATTEMPTS
  /\ FetchIdle
  /\ InitStore
  /\ dbUp = TRUE
  /\ CacheIdle
  /\ PagesIdle
  /\ listing = 1
  /\ kalshiMarkets \in SeqsUpTo(MatchPool, MaxMarkets)
  /\ polymarketMarkets \in SeqsUpTo(MatchPool, MaxMarkets)
  /\ pairs = <<>>
  /\ matchPc = "ready"
  /\ ArbIdle
  /\ TailIdle

NextMatch ==
  \/ Match

SpecMatch == InitMatch /\ [][NextMatch]_vars

\* matchMarkets on one Kalshi market and one Polymarket market
InitScore ==
  /\ retries = DEFAULT_RETRY_ATTEMPTS
  /\ FetchIdle
  /\ InitStore
  /\ dbUp = TRUE
  /\ CacheIdle
  /\ PagesIdle
  /\ listing = 1
  /\ kalshiMarkets \in [1..1 -> ScorePool]
  /\ polymarketMarkets \in [1..1 -> ScorePool]
  /\ pairs = <<>>
  /\ matchPc = "ready"
  /\ ArbIdle
  /\ TailIdle

SpecScore == InitScore /\ [][NextMatch]_vars

\* the detector on two lists of up to MaxMarkets markets
InitDetect ==
  /\ retries = DEFAULT_RETRY_ATTEMPTS
  /\ FetchIdle
  /\ InitStore
  /\ dbUp = TRUE
  /\ CacheIdle
  /\ PagesIdle
  /\ listing = 1
  /\ kalshiMarkets \in SeqsUpTo(KalshiPool, MaxMarkets)
  /\ polymarketMarkets \in SeqsUpTo(PolymarketPool, MaxMarkets)
  /\ pairs = <<>>
  /\ matchPc = "ready"
  /\ ArbIdle
  /\ TailIdle

NextDetect ==
  \/ Detect
  \/ DetectorUpdateConfig

SpecDetect == InitDetect /\ [][NextDetect]_vars

\* the detector called again and again on two lists of MaxMarkets markets
\* and on shorter Kalshi lists
InitRepeat ==
  /\ retries = DEFAULT_RETRY_ATTEMPTS
  /\ FetchIdle
  /\ InitStore
  /\ dbUp = TRUE
  /\ CacheIdle
  /\ PagesIdle
  /\ listing = 1
  /\ kalshiMarkets \in [1..MaxMarkets -> KalshiPool]
  /\ polymarketMarkets \in [1..MaxMarkets -> PolymarketPool]
  /\ pairs = <<>>
  /\ matchPc = "ready"
  /\ ArbIdle
  /\ TailIdle

NextRepeat ==
  \/ DetectAgain
  \/ DetectorUpdateConfig

SpecRepeat == InitRepeat /\ [][NextRepeat]_vars

\* up to MaxScans detectOpportunities calls with a database that comes and
\* goes
NextScan ==
  \/ DetectOpportunities
  \/ ScanDbCheck
  \/ ScanStart
  \/ ScanKalshiIds
  \/ ScanPolyIds
  \/ ScanUpsert
  \/ ScanComplete
  \/ DbToggle

SpecScan == Init /\ [][NextScan]_vars

\* a pair of priced markets (either side may be missing) and a fee structure
InitArb ==
  /\ retries = DEFAULT_RETRY_ATTEMPTS
  /\ FetchIdle
  /\ InitStore
  /\ dbUp = TRUE
  /\ CacheIdle
  /\ PagesIdle
  /\ listing = 1
  /\ MatchIdle
  /\ pair \in [kalshi : PricedMarkets("kalshi") \cup {MissingMarket("kalshi")},
                polymarket : PricedMarkets("polymarket") \cup {MissingMarket("polymarket")},
                matchConfidence : {Frac(1, 1)}]
  /\ fees \in FeeStructures
  /\ arbResult = NoCalc
  /\ TailIdle

NextArb ==
  \/ CalcCross
  \/ CalcIntra

SpecArb == InitArb /\ [][NextArb]_vars

(***************************************************************************)
(* Properties of DomeClient.fetch                                          *)
(***************************************************************************)
\* the retryable statuses as the specification lists them
RetryableByPolicy(status) == status \in {408, 429} \/ status >= 500

AllRetryableStatus(n) ==
  \A i \in 1..n : outcomes[i].kind = "status" /\ RetryableByPolicy(outcomes[i].status)

\* C6: a non-success response whose status is not 408, not 429 and below 500
\* ends the call at once, whatever its status text and body: the error is
\* thrown, no backoff wait starts and no further request is issued.
C6_TerminalStatusNeverRetried ==
  \A i \in 1..Len(outcomes) :
     (outcomes[i].kind = "status" /\ ~RetryableByPolicy(outcomes[i].status))
       => /\ i = Len(outcomes)
          /\ fpc = "done"
          /\ fresult = [kind |-> "thrown", value |-> observed]
          /\ nRequests = i
          /\ nWaits = i - 1

\* C7: a logical request issues at most retryAttempts+1 HTTP requests and
\* starts at most retryAttempts backoff waits, and every started request
\* ends, with a payload returned or an error thrown.
C7_BoundedAttemptsThenEnds ==
  /\ [](/\ nRequests <= retries + 1
        /\ nWaits <= retries
        /\ (fpc = "done" => fresult.kind \in {"returned", "thrown"}))
  /\ ((fpc \in {"request", "json", "backoff"}) ~> (fpc = "done"))

C7_Witness ==
  /\ fpc = "done" /\ fresult.kind = "thrown"
  /\ retries = MaxRetries
  /\ nRequests = retries + 1 /\ nWaits = retries

\* C8: while the first k <= retryAttempts attempts all failed with a
\* retryable status the call keeps going, with exactly one backoff wait per
\* failed attempt, each wait before the next request; when attempt k+1 then
\* succeeds the call returns the payload after exactly k waits.
C8_RetryableStatusThenSuccess ==
  LET n == Len(outcomes) IN
  /\ (n >= 1 /\ n <= retries /\ AllRetryableStatus(n))
       => /\ fpc \in {"backoff", "request", "json"}
          /\ nWaits = n
          /\ nRequests = IF fpc = "backoff" THEN n ELSE n + 1
  /\ (n >= 1 /\ outcomes[n].kind = "ok" /\ AllRetryableStatus(n - 1))
       => /\ fpc = "done"
          /\ fresult.kind = "returned"
          /\ fresult.value \in Payloads
          /\ nWaits = n - 1
          /\ nRequests = n

\* 503, 503, success with the default budget of 2
C8_Witness ==
  /\ retries = DEFAULT_RETRY_ATTEMPTS
  /\ Len(outcomes) = 3
  /\ outcomes[1] = Outcome("status", 503)
  /\ outcomes[2] = Outcome("status", 503)
  /\ outcomes[3].kind = "ok"
  /\ fresult.kind = "returned"
  /\ nWaits = 2

\* C9: once the timeout of an attempt has aborted the pending request, the
\* attempt can only end with the AbortError, which is retried (a backoff
\* wait starts) when attempts remain and is thrown to the caller otherwise.
C9_TimeoutIsRetryableTransportError ==
  [][ (fpc = "request" /\ aborted)
        => \/ (fpc' = "request" /\ aborted')
           \/ /\ lastError' = AbortError
              /\ IF attempt < retries
                   THEN fpc' = "backoff" /\ nWaits' = nWaits + 1 /\ fresult' = fresult
                   ELSE fpc' = "done" /\ nWaits' = nWaits
                        /\ fresult' = [kind |-> "thrown", value |-> AbortError] ]_vars

\* a timed-out attempt is being retried
C9_Witness ==
  /\ fpc = "backoff"
  /\ lastError = AbortError
  /\ outcomes[Len(outcomes)].kind = "abort"

\* C10: when the call throws after retryAttempts+1 attempts, the thrown
\* error is the one the final attempt produced, never the generic
\* "Request failed after retries" error.
C10_LastObservedErrorSurfaced ==
  (fpc = "done" /\ fresult.kind = "thrown" /\ Len(outcomes) = retries + 1)
     => /\ fresult.value = observed
        /\ fresult.value # GenericError
        /\ fresult.value # Undefined

\* 503 then a connection reset with a budget of 1: the reset is surfaced
C10_Witness ==
  /\ fpc = "done" /\ fresult.kind = "thrown"
  /\ retries >= 1
  /\ Len(outcomes) = retries + 1
  /\ outcomes[1].kind = "status"
  /\ outcomes[Len(outcomes)].kind = "transport"
  /\ fresult.value = ErrorValue(TRUE, "Error", <<"read", "ECONNRESET">>)

(***************************************************************************)
(* Properties of the markets store                                         *)
(***************************************************************************)
storeSignals == <<markets, connected, loading, error, lastUpdated, domeConnected,
                  dbConnected, dataSource>>

\* C1: at most one fetchAllMarkets invocation is ever suspended (loading is
\* true exactly then); an invocation arriving while loading is a no-op: it
\* changes no signal, starts no run and no persistence task; and a run only
\* ever starts in the step of an invocation that found loading false.
C1_RefreshIsReentrantGuarded ==
  /\ [](Len(runs) <= 1 /\ (loading <=> Len(runs) = 1))
  /\ [][ loading => /\ lastCall' \in {lastCall, "noop"}
                    /\ Len(runs') <= Len(runs)
                    /\ (lastCall' # lastCall
                          => UNCHANGED <<storeSignals, runs, tasks, marketsCache, dbRows,
                                         gen, nRefreshes, report>>) ]_vars
  /\ [][ Len(runs') > Len(runs)
          => ~loading /\ lastCall' = "started" /\ nRefreshes' = nRefreshes + 1 ]_vars

\* an invocation returned at the guard while a refresh waits for the database
C1_Witness ==
  /\ lastCall = "noop"
  /\ loading
  /\ Len(runs) = 1
  /\ runs[1].pc = "dbload"

\* C2: in a completed refresh where the live fetch of platform a failed while
\* a valid cache entry for a existed and the live fetch of platform b
\* succeeded, a's list comes from the cache, b's from the API, no error is
\* shown and lastUpdated is set.
C2_PartialFailureServedFromCache ==
  \A a, b \in Platforms :
     (/\ report.kind = "fetched"
      /\ a # b
      /\ report.live[a] = "failed" /\ report.cacheAtFail[a]
      /\ report.live[b] = "ok")
       => /\ report.source[a] = "cache"
          /\ report.source[b] = "api"
          /\ error = NullMessage
          /\ lastUpdated # NullDate

\* C3: every refresh that goes to the API attempts the live fetch of both
\* platforms, whatever happened to the other one; a platform whose live
\* fetch succeeded has its list published and the refresh shows no error.
C3_FailureIsolation ==
  report.kind = "fetched"
    => /\ \A p \in Platforms : report.live[p] # "none"
       /\ \A p \in Platforms :
            report.live[p] = "ok"
              => /\ report.source[p] = "api"
                 /\ markets[p].from = "api"
                 /\ connected[p]
                 /\ error = NullMessage
                 /\ ~loading

\* Kalshi failed, its database fallback gave nothing, Polymarket was fetched
C3_Witness ==
  /\ report.kind = "fetched"
  /\ report.live["kalshi"] = "failed"
  /\ report.source["kalshi"] = "none"
  /\ report.live["polymarket"] = "ok"
  /\ markets["polymarket"].from = "api"
  /\ error = NullMessage

\* C4: in a refresh that is not forced, a platform with a valid cache entry
\* is served from the cache without a live fetch, whatever the cache state
\* of the other platform; and a platform whose live fetch failed while its
\* cache entry was valid is served from the cache, not from the database.
C4_CascadePerPlatform ==
  \A p \in Platforms :
     (report.kind # "none" /\ ~report.forced)
       => /\ report.cacheAtStart[p]
               => (report.source[p] = "cache" /\ report.live[p] = "none")
          /\ (report.live[p] = "failed" /\ report.cacheAtFail[p])
               => report.source[p] = "cache"

\* C5: a completed refresh shows an error only if, for some platform, the
\* live fetch failed, no valid cache entry existed and the database gave
\* nothing.
C5_ErrorOnlyWhenAllExhausted ==
  (report.kind = "fetched" /\ error # NullMessage)
     => \E p \in Platforms :
           /\ report.live[p] = "failed"
           /\ ~report.cacheAtFail[p]
           /\ report.source[p] = "none"

\* the steps a suspended fetchAllMarkets invocation can resume with
RunStep ==
  PageHasMore \/ PageLast \/ PageThrows \/ LoadDbCheck \/ LoadDbRows \/ SleepDone

\* the outcome of a refresh: the signals it writes, its invocation, its report
refreshOutcome == <<markets, connected, loading, error, lastUpdated, domeConnected,
                    dataSource, runs, report>>

\* C11: persistence is fire-and-forget. The step that starts a persistence
\* task is the step in which the refresh goes on (to the sleep, or to its
\* end); a suspended refresh can always resume, whatever the persistence
\* tasks are doing, as long as the upstream answers (it can always fail);
\* and no step of a persistence task, failing or not, changes the outcome of
\* a refresh.
C11_PersistenceIsFireAndForget ==
  /\ [](loading => \/ ENABLED RunStep
                    \/ (runs[1].pc = "api" /\ gen = MaxGen))
  /\ [][ (\E t \in tasks' : t \notin tasks /\ t.pc = "check")
          => (Len(runs') = 0 \/ runs'[1].pc = "sleep") ]_vars
  /\ [][ (\E t \in tasks : t \notin tasks') => UNCHANGED refreshOutcome ]_vars

\* the only refresh fetched both platforms and has completed without error
\* while Polymarket's persistence has not started its first query and
\* Kalshi's has ended without reaching the cache update (it failed)
C11_Witness ==
  /\ nRefreshes = 1
  /\ report.kind = "fetched"
  /\ ~loading
  /\ error = NullMessage
  /\ lastUpdated # NullDate
  /\ report.live = [p \in Platforms |-> "ok"]
  /\ marketsCache["kalshi"] = NoEntry
  /\ tasks = {[platform |-> "polymarket", data |-> markets["polymarket"], pc |-> "check"]}

\* C12: at most one interval timer is ever active, and one is active exactly
\* when the handle refreshInterval is set; stopAutoRefresh leaves no timer
\* and a null handle, startAutoRefresh leaves exactly one timer; and no
\* timer-driven refresh happens while the handle is null.
C12_SingleRefreshTimer ==
  /\ [](activeTimers \in {0, 1} /\ (activeTimers = 1 <=> refreshInterval # "null"))
  /\ [][ StopAutoRefresh => (activeTimers' = 0 /\ refreshInterval' = "null") ]_vars
  /\ [][ StartAutoRefresh => (activeTimers' = 1 /\ refreshInterval' = "timer") ]_vars
  /\ [][ TimerTick => refreshInterval # "null" ]_vars

\* startAutoRefresh has just replaced a timer that was active
C12_Witness ==
  /\ lastTimerOp = "restart"
  /\ activeTimers = 1
  /\ refreshInterval = "timer"

(***************************************************************************)
(* Properties of CacheManager                                              *)
(***************************************************************************)
\* a CacheManager call has just returned
CacheCall(op) == cacheOp' # cacheOp /\ cacheOp'.op = op

\* C13: getCachedMarkets(key) returns the list of the latest
\* setCachedMarkets(key, ...) exactly when such a call exists (and was not
\* invalidated) and now - its time < the ttl it recorded, and null
\* otherwise, and changes nothing in the cache; setCachedMarkets(key, list)
\* replaces the entry of key by the list with the current time as timestamp
\* and leaves the other keys alone.
C13_CacheGetSetContract ==
  /\ [][ CacheCall("get") =>
           LET ls == lastSet[cacheOp'.key]
               fresh == ls.present /\ now - ls.at < ls.ttl
           IN  /\ marketsCache' = marketsCache
               /\ cacheOp'.hit <=> fresh
               /\ cacheOp'.data = (IF fresh THEN ls.data ELSE NoMarkets) ]_vars
  /\ [][ CacheCall("set") =>
           /\ marketsCache'[cacheOp'.key] =
                 [present |-> TRUE, data |-> cacheOp'.data, timestamp |-> now,
                  ttlMs |-> config.marketsTtlMs]
           /\ \A k \in Platforms \ {cacheOp'.key} : marketsCache'[k] = marketsCache[k] ]_vars

\* a get at the very tick the entry's age reaches its ttl returns null
C13_Witness ==
  /\ cacheOp.op = "get"
  /\ cacheOp.at = now
  /\ ~cacheOp.hit
  /\ lastSet[cacheOp.key].present
  /\ now - lastSet[cacheOp.key].at = lastSet[cacheOp.key].ttl

\* C14: getMarketsFreshness(key) classifies by the age of the entry and the
\* ttl the entry is valid for: below one second "api" (live), else below the
\* ttl "cache" (cached), else and for a missing entry "db" (stale); and it
\* reports isStale exactly when getCachedMarkets(key) would return null;
\* whatever updateConfig calls happened.
C14_FreshnessClassification ==
  [][ CacheCall("freshness") =>
        LET ls == lastSet[cacheOp'.key]
            age == now - ls.at
            getIsNull == ~(ls.present /\ age < ls.ttl)
        IN  /\ cacheOp'.source =
                  (IF ls.present /\ age < liveWindowMs THEN "api"
                   ELSE IF ls.present /\ age < ls.ttl THEN "cache"
                   ELSE "db")
            /\ cacheOp'.isStale <=> getIsNull ]_vars

C27_NewerEntryNotOverwritten ==
  [][ \A p \in Platforms :
        (marketsCache[p].present /\ marketsCache'[p].present)
          => marketsCache'[p].data.gen >= marketsCache[p].data.gen ]_vars

\* C28: when the live fetch of a platform fails and the database yields no
\* markets for it, the refresh leaves the platform's market list as it was
\* and its connectivity flag false; and a platform's list changes only by
\* the outcome of its own fetch (the live list, or a non-empty list loaded
\* from the database after a failure) or when both lists come from the
\* cache.
C28_FailedPlatformKeepsItsList ==
  /\ [](\A i \in 1..Len(runs) :
           runs[i].pc \in {"dbcheck", "dbload"} => ~connected[runs[i].platform])
  /\ [](\A p \in Platforms :
           (/\ report.kind = "fetched"
            /\ report.live[p] = "failed"
            /\ report.source[p] = "none")
             => ~connected[p])
  /\ [][ \A i \in 1..Len(runs) :
           (/\ runs[i].pc \in {"api", "dbcheck", "dbload"}
            /\ \/ Len(runs') < i
               \/ runs'[i].pc \notin {"api", "dbcheck", "dbload"}
            /\ LET after == IF Len(runs') < i THEN report' ELSE runs'[i]
               IN  /\ after.live[runs[i].platform] = "failed"
                   /\ after.source[runs[i].platform] = "none")
             => markets' = markets ]_vars
  /\ [][ \A p \in Platforms :
           markets'[p] # markets[p]
             => \/ /\ report'.kind = "cached"
                   /\ markets'[p] = marketsCache[p].data
                \/ \E i \in 1..Len(runs) :
                     /\ runs[i].platform = p
                     /\ \/ /\ runs[i].pc = "api"
                           /\ markets'[p] = LiveList(gen')
                           /\ gen' = gen + 1
                        \/ /\ runs[i].pc = "dbload"
                           /\ dbRows[p] > 0
                           /\ markets'[p] = DbList(dbRows[p]) ]_vars

\* the second refresh: Kalshi's live fetch failed and the database gave
\* nothing, so the list of the first refresh stays published, marked as not
\* connected; Polymarket was fetched
C28_Witness ==
  /\ report.kind = "fetched"
  /\ nRefreshes = 2
  /\ report.live["kalshi"] = "failed"
  /\ report.source["kalshi"] = "none"
  /\ markets["kalshi"] = LiveList(1)
  /\ ~connected["kalshi"]
  /\ report.live["polymarket"] = "ok"
  /\ markets["polymarket"] = LiveList(2)

\* C29: every refresh that started completes, and loading is false again,
\* whichever path it takes (both lists from the cache, both fetched, a
\* platform failed and was or was not found in the database, everything
\* failed); loading is true only while a refresh is in flight.
C29_RefreshCompletes ==
  /\ [](loading <=> Len(runs) = 1)
  /\ [](report.kind # "none" => ~loading)
  /\ (loading ~> ~loading)

\* a refresh in which both live fetches failed and the database gave nothing
\* has completed with an error
C29_Witness ==
  /\ report.kind = "fetched"
  /\ \A p \in Platforms : report.live[p] = "failed" /\ report.source[p] = "none"
  /\ ~loading
  /\ error # NullMessage
  /\ runs = <<>>

(***************************************************************************)
(* Properties of the pagination loops                                      *)
(***************************************************************************)
\* C15: the page requests carry the offsets 0, limit, 2*limit, ... in order,
\* one request per page served plus the pending one; the call goes on
\* exactly while every page served said has_more; it returns right after the
\* first page that did not, with the concatenation of all pages in request
\* order; against a listing that never ends it never returns, and against a
\* finite one it returns or, if a request fails, throws.
C15_PaginationUntilNoMore ==
  /\ [](/\ \A i \in 1..Len(requests) : requests[i] = (i - 1) * limit
        /\ pagePc \in {"request", "thrown"} =>
              /\ Len(requests) = Len(served) + 1
              /\ \A i \in 1..Len(served) : served[i].pagination.has_more
        /\ pagePc = "returned" =>
              /\ Len(requests) = Len(served)
              /\ \A i \in 1..Len(served) :
                    served[i].pagination.has_more <=> i < Len(served)
              /\ allMarkets = ConcatPages(pagePlatform, served)
        /\ listing = 0 => pagePc # "returned")
  /\ (listing # 0 ~> pagePc \in {"returned", "thrown"})

\* a three-page listing was read to its end
C15_Witness ==
  /\ pagePc = "returned"
  /\ listing = 3
  /\ requests = <<0, 100, 200>>
  /\ Len(allMarkets) = 3 * MaxPageSize
  /\ allMarkets[Len(allMarkets)] = transformMarket(pagePlatform, 200 + MaxPageSize)

(***************************************************************************)
(* Properties of the matcher                                               *)
(***************************************************************************)
\* C16: in the pairs matchMarkets returns, no Kalshi id occurs in two pairs
\* and no Polymarket id occurs in two pairs, whatever the two lists are.
C16_MatchingIsOneToOne ==
  matchPc = "done"
    => \A i, j \in 1..Len(pairs) :
          i # j => /\ pairs[i].kalshi.id # pairs[j].kalshi.id
                   /\ pairs[i].polymarket.id # pairs[j].polymarket.id

\* the two markets have the same title, end dates on the same day, and
\* categories that are equal up to case
SameTitleDateCategory(kalshi, poly) ==
  /\ kalshi.title = poly.title
  /\ kalshi.endDate.defined /\ poly.endDate.defined
  /\ kalshi.endDate.year = poly.endDate.year
  /\ kalshi.endDate.month = poly.endDate.month
  /\ kalshi.endDate.date = poly.endDate.date
  /\ kalshi.category.defined /\ poly.category.defined
  /\ kalshi.category.text # <<>>
  /\ toLowerCase(kalshi.category.text) = toLowerCase(poly.category.text)

\* C17: a Kalshi market and a Polymarket market with the same title, end
\* dates on the same day and equal categories are returned as a pair with
\* confidence exactly 1, whatever the title is.
C17_IdenticalMarketsScoreOne ==
  (/\ matchPc = "done"
   /\ Len(kalshiMarkets) = 1 /\ Len(polymarketMarkets) = 1
   /\ SameTitleDateCategory(kalshiMarkets[1], polymarketMarkets[1]))
    => /\ Len(pairs) = 1
       /\ pairs[1].kalshi = kalshiMarkets[1]
       /\ pairs[1].polymarket = polymarketMarkets[1]
       /\ pairs[1].matchConfidence.num = pairs[1].matchConfidence.den

InUnitInterval(x) == x.den > 0 /\ 0 <= x.num /\ x.num <= x.den

\* C18: for every pair of markets, similarity and keyword overlap lie in
\* [0,1] and so does the confidence 0.5*similarity + 0.2*overlap
\* + 0.2*[dates match] + 0.1*[categories match]; so does the confidence of
\* every returned pair.
C18_ConfidenceInUnitInterval ==
  matchPc = "done"
    => /\ \A i \in 1..Len(kalshiMarkets), j \in 1..Len(polymarketMarkets) :
            LET k == kalshiMarkets[i]
                p == polymarketMarkets[j]
            IN  /\ InUnitInterval(calculateSimilarity(k.title, p.title))
                /\ InUnitInterval(keywordOverlap(k.title, p.title))
                /\ InUnitInterval(Confidence(k, p))
       /\ \A i \in 1..Len(pairs) : InUnitInterval(pairs[i].matchConfidence)

\* the same title up to case and punctuation, the same day, the same
\* category up to case: every weight is earned and the pair scores 1
C18_Witness ==
  /\ matchPc = "done"
  /\ kalshiMarkets[1].title = Titles.fedCut
  /\ polymarketMarkets[1].title = Titles.fedCutLoud
  /\ kalshiMarkets[1].endDate = Days.morning
  /\ polymarketMarkets[1].endDate = Days.evening
  /\ kalshiMarkets[1].category = Categories.politics
  /\ polymarketMarkets[1].category = Categories.politicsLower
  /\ Len(pairs) = 1
  /\ pairs[1].matchConfidence.num = pairs[1].matchConfidence.den

\* the elements of B whose id no earlier A element has claimed
Unclaimed(claimed) ==
  {j \in 1..Len(polymarketMarkets) : polymarketMarkets[j].id \notin claimed}

\* among the unclaimed elements of B, the first of those with the highest
\* confidence against A[i]; 0 if there is none
BestCandidate(i, claimed) ==
  LET score(j) == Confidence(kalshiMarkets[i], polymarketMarkets[j])
  IN  IF Unclaimed(claimed) = {} THEN 0
      ELSE CHOOSE j \in Unclaimed(claimed) :
             \A k \in Unclaimed(claimed) :
                \/ FracGT(score(j), score(k))
                \/ (~FracGT(score(k), score(j)) /\ j <= k)

\* the pairs the greedy rule yields for A[i], A[i+1], ..., in that order
RECURSIVE GreedyFrom(_, _)
GreedyFrom(i, claimed) ==
  IF i > Len(kalshiMarkets) THEN <<>>
  ELSE LET j == BestCandidate(i, claimed)
           paired == /\ j # 0
                     /\ FracGT(Confidence(kalshiMarkets[i], polymarketMarkets[j]),
                               Frac(6, 10))
       IN  IF paired
             THEN <<[kalshi |-> kalshiMarkets[i], polymarket |-> polymarketMarkets[j],
                     matchConfidence |-> Confidence(kalshiMarkets[i],
                                                    polymarketMarkets[j])]>>
                    \o GreedyFrom(i + 1, claimed \cup {polymarketMarkets[j].id})
             ELSE GreedyFrom(i + 1, claimed)

\* how often a pair (markets and confidence) occurs in a sequence of pairs
Occurrences(ps, p) ==
  Cardinality({n \in 1..Len(ps) : /\ ps[n].kalshi = p.kalshi
                                  /\ ps[n].polymarket = p.polymarket
                                  /\ ps[n].matchConfidence = p.matchConfidence})

\* C25: matchMarkets is greedy in input order: each element of A, in the
\* given order, is paired with the element of highest confidence among the
\* elements of B no earlier A element has claimed (claims are recorded by
\* id), the first of them in B order on a tie, and it is paired if and only
\* if that confidence is strictly greater than 0.6; an A element without
\* such a candidate stays unmatched and claims nothing. The pairs returned
\* are exactly these, each as often as the rule yields it.
C25_GreedyInInputOrder ==
  matchPc = "done"
    => LET greedy == GreedyFrom(1, {})
       IN  /\ Len(pairs) = Len(greedy)
           /\ \A n \in 1..Len(greedy) :
                 Occurrences(pairs, greedy[n]) = Occurrences(greedy, greedy[n])

\* the first Kalshi market takes the second Polymarket market (confidence 1
\* against 0.804 for the first), the second Kalshi market is left with the
\* first Polymarket market
C25_Witness ==
  /\ matchPc = "done"
  /\ Len(kalshiMarkets) = 2 /\ Len(polymarketMarkets) = 2
  /\ kalshiMarkets[1].id # kalshiMarkets[2].id
  /\ polymarketMarkets[1].id # polymarketMarkets[2].id
  /\ Len(pairs) = 2
  /\ pairs[1].kalshi = kalshiMarkets[1]
  /\ pairs[1].polymarket = polymarketMarkets[2]
  /\ pairs[1].matchConfidence.num = pairs[1].matchConfidence.den
  /\ pairs[2].kalshi = kalshiMarkets[2]
  /\ pairs[2].polymarket = polymarketMarkets[1]
  /\ FracGT(Confidence(kalshiMarkets[2], polymarketMarkets[2]), pairs[2].matchConfidence)

(***************************************************************************)
(* Properties of the arbitrage calculators                                 *)
(***************************************************************************)
\* the profits of the two strategies as the specification states them
Profit1 ==
  One - Nullish(pair.kalshi.yesAsk, pair.kalshi.yesPrice) - pair.polymarket.noPrice
      - (fees.kalshi.takerFee + fees.polymarket.takerFee)
Profit2 ==
  One - Nullish(pair.kalshi.noAsk, pair.kalshi.noPrice) - pair.polymarket.yesPrice
      - (fees.kalshi.takerFee + fees.polymarket.takerFee)

\* C19: for a pair with both markets, calculateCrossMarketArbitrage returns
\* none exactly when max(profit1, profit2) <= 0.001; otherwise it buys YES
\* on Kalshi (strategy 1) if profit1 >= profit2 and NO on Kalshi
\* (strategy 2) otherwise, and profitMargin is 100 times the chosen profit.
C19_CrossMarketSelection ==
  (arbResult.fn = "cross" /\ pair.kalshi.present /\ pair.polymarket.present)
    => LET result == arbResult.value
           best == Max2(Profit1, Profit2)
       IN  /\ ~result.found <=> best <= ProfitFloor
           /\ result.found =>
                 /\ result.trade.buy.side = (IF Profit1 >= Profit2 THEN "yes" ELSE "no")
                 /\ result.trade.sell.side = (IF Profit1 >= Profit2 THEN "no" ELSE "yes")
                 /\ result.profitMargin = 100 * best

\* yesAsk 0.40 on Kalshi, noPrice 0.45 on Polymarket, fees 0.07 + 0.02:
\* strategy 1 with margin 6.00
C19_Witness ==
  /\ arbResult.fn = "cross"
  /\ pair.kalshi.present /\ pair.polymarket.present
  /\ pair.kalshi.yesAsk = 400
  /\ pair.polymarket.noPrice = 450
  /\ fees = DEFAULT_FEES
  /\ arbResult.value.found
  /\ arbResult.value.trade.buy.side = "yes"
  /\ arbResult.value.profitMargin = 6000

\* the market calculateIntraMarketArbitrage was called on
IntraMarket ==
  IF arbResult.platform = "kalshi" THEN pair.kalshi ELSE pair.polymarket

\* the spread as the specification states it
Spread ==
  One - Nullish(IntraMarket.yesAsk, IntraMarket.yesPrice)
      - Nullish(IntraMarket.noAsk, IntraMarket.noPrice)
      - 2 * (IF arbResult.platform = "kalshi" THEN fees.kalshi.takerFee
                                              ELSE fees.polymarket.takerFee)

\* C20: calculateIntraMarketArbitrage returns an opportunity exactly when
\* the spread, with twice the taker fee of the market's own platform, is
\* strictly greater than 0.001, and then profitMargin is 100 times the
\* spread.
C20_IntraMarketSpread ==
  arbResult.fn = "intra"
    => /\ arbResult.value.found <=> Spread > ProfitFloor
       /\ arbResult.value.found =>
             /\ arbResult.value.spread = Spread
             /\ arbResult.value.profitMargin = 100 * Spread

\* yesAsk = noAsk = 0.46 without fees: margin 8.00
C20_Witness ==
  /\ arbResult.fn = "intra"
  /\ IntraMarket.yesAsk = 460
  /\ IntraMarket.noAsk = 460
  /\ fees = FeesOf(0, 0)
  /\ arbResult.value.found
  /\ arbResult.value.profitMargin = 8000

(***************************************************************************)
(* Properties of the detector                                              *)
(***************************************************************************)
\* the heads of the two lists detect returned
Heads ==
  (IF Len(detectResult.crossMarket) > 0 THEN {detectResult.crossMarket[1]} ELSE {})
    \cup (IF Len(detectResult.intraMarket) > 0 THEN {detectResult.intraMarket[1]} ELSE {})

\* both lists are non-empty and their heads have the same profitMargin
HeadsTie ==
  /\ Len(detectResult.crossMarket) > 0
  /\ Len(detectResult.intraMarket) > 0
  /\ detectResult.crossMarket[1].profitMargin = detectResult.intraMarket[1].profitMargin

\* bestOpportunity is null when both lists are empty and otherwise a head of
\* the largest profitMargin, each head being the largest of its list
BestIsLargestHead ==
  /\ \A i \in 1..Len(detectResult.crossMarket) :
        detectResult.crossMarket[1].profitMargin >= detectResult.crossMarket[i].profitMargin
  /\ \A i \in 1..Len(detectResult.intraMarket) :
        detectResult.intraMarket[1].profitMargin >= detectResult.intraMarket[i].profitMargin
  /\ Heads = {} <=> ~detectResult.bestOpportunity.found
  /\ Heads # {} =>
        /\ detectResult.bestOpportunity \in Heads
        /\ \A head \in Heads :
              detectResult.bestOpportunity.profitMargin >= head.profitMargin

\* C21 as stated: bestOpportunity is the head with the larger profitMargin
\* among the heads of the sorted cross-market and intra-market lists, the
\* cross-market head when both heads have equal profitMargin, the other
\* list's head when one list is empty, null when both are.
C21_TieFavoursCrossMarket ==
  detectResult.returned
    => /\ BestIsLargestHead
       /\ HeadsTie => detectResult.bestOpportunity = detectResult.crossMarket[1]

\* C21 amended: as above, but when both heads have equal profitMargin the
\* intra-market head is chosen.
C21_TieFavoursIntraMarket ==
  detectResult.returned
    => /\ BestIsLargestHead
       /\ HeadsTie => detectResult.bestOpportunity = detectResult.intraMarket[1]

\* "Fed cut" at 0.45 on both platforms without fees: the cross margin
\* 100 * (1 - 0.45 - 0.45) equals the Polymarket intra margin
C21_Witness ==
  /\ detectResult.returned
  /\ detectCall.config.fees = FeesOf(0, 0)
  /\ HeadsTie
  /\ detectResult.crossMarket[1].profitMargin = 10000
  /\ detectResult.intraMarket[1].market.id = "p1"
  /\ detectResult.bestOpportunity.type = "intra-market"

\* the pairs of the latest call that pass minConfidence and whose cross-market
\* opportunity the calculator accepts with a margin of at least minProfitMargin
QualifyingPairs ==
  LET ps == matchMarkets(detectCall.kalshiMarkets, detectCall.polymarketMarkets)
  IN  {i \in 1..Len(ps) :
         LET opp == calculateCrossMarketArbitrage(ps[i], detectCall.config.fees)
         IN  /\ FracGE(ps[i].matchConfidence, detectCall.config.minConfidence)
             /\ opp.found
             /\ opp.profitMargin >= detectCall.config.minProfitMargin}

\* the markets of a list whose intra-market opportunity the calculator accepts
\* with a margin of at least minProfitMargin
QualifyingMarkets(marketList) ==
  {i \in 1..Len(marketList) :
     LET opp == calculateIntraMarketArbitrage(marketList[i], detectCall.config.fees)
     IN  opp.found /\ opp.profitMargin >= detectCall.config.minProfitMargin}

\* C22: whatever updateConfig calls came before, every opportunity detect
\* returns meets the thresholds in force at the call (cross-market:
\* confidence >= minConfidence and profitMargin >= minProfitMargin;
\* intra-market: profitMargin >= minProfitMargin), and every opportunity the
\* calculator accepts that meets them is returned.
C22_ThresholdsInForce ==
  detectResult.returned
    => LET ps == matchMarkets(detectCall.kalshiMarkets, detectCall.polymarketMarkets)
           cross == detectResult.crossMarket
           intra == detectResult.intraMarket
       IN  /\ \A i \in 1..Len(cross) :
                 /\ FracGE(cross[i].confidence, detectCall.config.minConfidence)
                 /\ cross[i].profitMargin >= detectCall.config.minProfitMargin
           /\ \A i \in 1..Len(intra) :
                 intra[i].profitMargin >= detectCall.config.minProfitMargin
           /\ \A i \in QualifyingPairs :
                 \E j \in 1..Len(cross) :
                    cross[j] = calculateCrossMarketArbitrage(ps[i], detectCall.config.fees)
           /\ Len(cross) = Cardinality(QualifyingPairs)
           /\ \A i \in QualifyingMarkets(detectCall.kalshiMarkets) :
                 \E j \in 1..Len(intra) :
                    intra[j] = calculateIntraMarketArbitrage(detectCall.kalshiMarkets[i],
                                                             detectCall.config.fees)
           /\ \A i \in QualifyingMarkets(detectCall.polymarketMarkets) :
                 \E j \in 1..Len(intra) :
                    intra[j] = calculateIntraMarketArbitrage(detectCall.polymarketMarkets[i],
                                                             detectCall.config.fees)
           /\ Len(intra) = Cardinality(QualifyingMarkets(detectCall.kalshiMarkets))
                             + Cardinality(QualifyingMarkets(detectCall.polymarketMarkets))

\* after three updateConfig calls (no fees, minConfidence 0.9, minProfitMargin
\* 2.0): of the two pairs matched, k1-p1 (confidence 1) is returned and k2-p2
\* (confidence 0.604) is not; with the thresholds the detector was built with
\* both would be
C22_Witness ==
  /\ detectResult.returned
  /\ detectCall.config = ConfigOf(2000, Frac(9, 10), FeesOf(0, 0))
  /\ Len(matchMarkets(detectCall.kalshiMarkets, detectCall.polymarketMarkets)) = 2
  /\ Len(detectResult.crossMarket) = 1
  /\ detectResult.crossMarket[1].events.kalshi.id = "k1"
  /\ Len(detectResult.intraMarket) > 0

\* the latest detect call and the remembered earlier one were given the same
\* two lists under the same configuration
SameCall ==
  /\ detectCall.made
  /\ earlierCall.made
  /\ earlierCall.kalshiMarkets = detectCall.kalshiMarkets
  /\ earlierCall.polymarketMarkets = detectCall.polymarketMarkets
  /\ earlierCall.config = detectCall.config

C24_DelayBetweenRequests ==
  \A i \in 2..Len(requests) : spacing[i] > 0

(***************************************************************************)
(* Properties of the scan history                                          *)
(***************************************************************************)
\* C30: every scan record opened by the background persistence (startScan,
\* status running) is closed, marked completed or failed, also when a later
\* step of the persistence throws: a record is in status running only while
\* the invocation that opened it is still at work.
C30_NoScanLeftRunning ==
  \A id \in 1..Len(scanHistory) :
     scanHistory[id] = "running"
       => \E i \in 1..Len(scanTasks) :
             scanTasks[i].scanId = id /\ scanTasks[i].pc # "ended"

====
